---- MODULE Spec2Model ----
(***************************************************************************)
(* sdn, the simple directory navigator: a model of the navigation engine   *)
(* of sdn.cpp (the directory listing and its sort order, the cursor and    *)
(* the viewport, the selection, the history levels, change_dir and the     *)
(* inotify watch), written operation by operation from the source.         *)
(*                                                                         *)
(* A C++ string is a sequence of one-character strings, so that the        *)
(* textual path functions are computed the way the code computes them.     *)
(* The program state `g' is a record; every function of the source that    *)
(* mutates g is an operator from a state record to a state record, and     *)
(* every action of the specification is one handler applied to the state.  *)
(***************************************************************************)
EXTENDS Integers, Sequences, FiniteSets, TLC

\* ------------------------------------------------------------------------
\* Bounds of the model
\* ------------------------------------------------------------------------

\* Terminal heights offered to the event loop: MinLINES..MaxLINES
MinLINES == 3
MaxLINES == 4
\* Number of filesystem changes the environment makes in one behaviour
MaxFsChanges == 1
\* Number of event-loop iterations in one behaviour
MaxIter == 2
\* fix_cursor_and_offset as a function: prior cursor and offset are drawn
\* from -MaxPrior..MaxPrior, the listing length from 0..MaxLen, and the
\* terminal height from 0..MaxFixLINES
MaxPrior == 6
MaxLen == 4
MaxFixLINES == 5
\* Number of keys the user presses in one behaviour of the prompts
MaxKeys == 3
\* Length of the line that a prompt holds when a key is tried on it
MaxLine == 3
\* Length of the filenames that are chosen, and how many of them a
\* directory holds besides `..'
MaxName == 2
MaxChosen == 2
\* Number of history lines in the configuration file at startup
MaxHistory == 2
\* Number of bytes of the PWD variable
MaxPwd == 4
\* How often helper programs are stopped in one behaviour
MaxStops == 2

\* Longest argument of change_dir, in bytes
MaxPath == 5

\* Number of messages that a session shows after startup
MaxShown == 2

\* ------------------------------------------------------------------------
\* Strings
\* ------------------------------------------------------------------------

Min(a, b) == IF a < b THEN a ELSE b
Max(a, b) == IF a > b THEN a ELSE b

\* The byte value of the characters the model uses (std::string compares
\* bytes)
Ord(c) ==
    CASE c = " " -> 32 [] c = "#" -> 35 [] c = "'" -> 39
      [] c = "*" -> 42 [] c = "." -> 46 [] c = "/" -> 47
      [] c = "=" -> 61 [] c = "\\" -> 92 [] c = "~" -> 126
      [] c = "a" -> 97 [] c = "b" -> 98 [] c = "c" -> 99
      [] c = "g" -> 103 [] c = "h" -> 104 [] c = "s" -> 115
      [] c = "x" -> 120
      [] c = "0x81" -> 129 [] c = "0xCC" -> 204 [] c = "0xFF" -> 255

\* std::string operator<: lexicographic on bytes, a proper prefix is less
RECURSIVE str_less(_, _)
str_less(a, b) ==
    IF b = <<>> THEN FALSE
    ELSE IF a = <<>> THEN TRUE
    ELSE IF Head(a) # Head(b) THEN Ord(Head(a)) < Ord(Head(b))
    ELSE str_less(Tail(a), Tail(b))

\* The elements of a std::set<string> in iteration order
RECURSIVE sort_strings(_)
sort_strings(S) ==
    IF S = {} THEN <<>>
    ELSE LET x == CHOOSE x \in S : \A y \in S \ {x} : str_less(x, y)
         IN  <<x>> \o sort_strings(S \ {x})

\* strncmp (a, b, Len (a)) == 0: b starts with a
has_prefix(a, b) ==
    Len(b) >= Len(a) /\ SubSeq(b, 1, Len(a)) = a

\* s.substr (from) with a 0-based position
substr_from(s, from) == SubSeq(s, from + 1, Len(s))

RECURSIVE prefix_length_from(_, _, _)
prefix_length_from(in, of, i) ==
    IF i < Len(of) /\ Len(in) > i /\ in[i + 1] = of[i + 1]
    THEN prefix_length_from(in, of, i + 1)
    ELSE i

\* in[in.size ()] is the terminating NUL, which equals no character of `of'
prefix_length(in, of) == prefix_length_from(in, of, 0)

\* Bytes and wide characters: a one-character string is an ASCII byte and
\* the wide character of the same value; "0xCC" "0x81" are the two bytes
\* of the combining acute accent "U+0301" in the locale's UTF-8, and
\* "0xFF" is a byte that starts no character
INVALID_ENCODING ==
    <<"/", "i", "n", "v", "a", "l", "i", "d", " ",
      "e", "n", "c", "o", "d", "i", "n", "g", "/">>

\* to_wide: mbrtowc character by character, the whole result replaced
\* when one conversion fails
RECURSIVE to_wide_from(_, _)
to_wide_from(multi, wide) ==
    IF multi = <<>> THEN wide
    ELSE IF Head(multi) = "0xCC"
         THEN IF Len(multi) >= 2 /\ multi[2] = "0x81"
              THEN to_wide_from(Tail(Tail(multi)), Append(wide, "U+0301"))
              ELSE INVALID_ENCODING
         ELSE IF Head(multi) \in {"0x81", "0xFF"} THEN INVALID_ENCODING
              ELSE to_wide_from(Tail(multi), Append(wide, Head(multi)))

to_wide(multi) == to_wide_from(multi, <<>>)

\* to_mb: wcrtomb character by character
RECURSIVE to_mb(_)
to_mb(wide) ==
    IF wide = <<>> THEN <<>>
    ELSE (IF Head(wide) = "U+0301" THEN <<"0xCC", "0x81">>
          ELSE <<Head(wide)>>) \o to_mb(Tail(wide))

\* ------------------------------------------------------------------------
\* Paths
\* ------------------------------------------------------------------------

RECURSIVE explode_walk(_, _, _, _)
explode_walk(path, mark, p, out) ==
    IF p > Len(path)
    THEN IF mark <= Len(path)
         THEN Append(out, SubSeq(path, mark, Len(path)))
         ELSE out
    ELSE IF path[p] = "/"
         THEN explode_walk(path, p + 1, p + 1,
                           Append(out, SubSeq(path, mark, p - 1)))
         ELSE explode_walk(path, mark, p + 1, out)

explode_path(path) == explode_walk(path, 1, 1, <<>>)

RECURSIVE join_components(_)
join_components(components) ==
    IF components = <<>> THEN <<>>
    ELSE Head(components) \o <<"/">> \o join_components(Tail(components))

serialize_path(components) ==
    LET result == join_components(components)
        keep == {n \in 1..Len(result) : result[n] # "/"}
    IN  IF keep # {}
        THEN SubSeq(result, 1, CHOOSE n \in keep : \A m \in keep : m <= n)
        ELSE result

absolutize(abs_base, path) ==
    IF path # <<>> /\ path[1] = "/" THEN path
    ELSE IF abs_base # <<>> /\ abs_base[Len(abs_base)] = "/"
         THEN abs_base \o path
         ELSE abs_base \o <<"/">> \o path

relativize(current, path) ==
    IF current = path THEN <<".">>
    ELSE LET cur == IF current[Len(current)] # "/"
                    THEN current \o <<"/">> ELSE current
         IN  IF has_prefix(cur, path)
             THEN substr_from(path, Len(cur))
             ELSE path

is_ancestor_dir(ancestor, of) ==
    IF ~has_prefix(ancestor, of) THEN FALSE
    ELSE \/ (Len(of) > Len(ancestor) /\ of[Len(ancestor) + 1] = "/")
         \/ (ancestor = <<"/">> /\ ancestor # of)

\* ------------------------------------------------------------------------
\* The filesystem the program runs on (the environment)
\* ------------------------------------------------------------------------

\* Directories: R is the root, A is /a, B is /a/b, BC is /a/bc, and D is an
\* unlinked directory (getcwd fails in it, and it reads as empty).
\* /s is a symbolic link to /a/b, /a/g is a regular file that may come and
\* go, /a/b/.h is a hidden regular file and /a/b/x a regular file.
Dirs == {"R", "A", "B", "BC", "D"}

\* Directories whose read permission the environment may revoke
LockableDirs == {"R", "A"}

FsStates ==
    [g : BOOLEAN, unreadable : SUBSET LockableDirs]

ParentOf(d) ==
    CASE d = "R" -> "R" [] d = "A" -> "R" [] d = "B" -> "A"
      [] d = "BC" -> "A" [] d = "D" -> "none"

\* st_mode of a directory (040755), a regular file (0100644) and a
\* symbolic link (0120777)
ModeDir == 16877
ModeReg == 33188
ModeLnk == 41471

S_ISDIR(mode) == (mode % 65536) \div 4096 = 4

\* What lstat () and, for links, stat () of the target report for the
\* members of a directory; node is the directory a name leads to
Members(fs, d) ==
    CASE d = "R" ->
           { [name |-> <<"a">>, node |-> "A", mode |-> ModeDir, tmode |-> 0,
              uid |-> 0, gid |-> 0, size |-> 3, mtime |-> 5],
             [name |-> <<"s">>, node |-> "B", mode |-> ModeLnk,
              tmode |-> ModeDir,
              uid |-> 1, gid |-> 1, size |-> 1, mtime |-> 2] }
      [] d = "A" ->
           { [name |-> <<"b">>, node |-> "B", mode |-> ModeDir, tmode |-> 0,
              uid |-> 1, gid |-> 0, size |-> 2, mtime |-> 3],
             [name |-> <<"b", "c">>, node |-> "BC", mode |-> ModeDir,
              tmode |-> 0,
              uid |-> 0, gid |-> 1, size |-> 1, mtime |-> 1] }
           \cup (IF fs.g
                 THEN { [name |-> <<"g">>, node |-> "file", mode |-> ModeReg,
                         tmode |-> 0,
                         uid |-> 1, gid |-> 1, size |-> 7, mtime |-> 2] }
                 ELSE {})
      [] d = "B" ->
           { [name |-> <<".", "h">>, node |-> "file", mode |-> ModeReg,
              tmode |-> 0,
              uid |-> 0, gid |-> 0, size |-> 0, mtime |-> 4],
             [name |-> <<"x">>, node |-> "file", mode |-> ModeReg,
              tmode |-> 0,
              uid |-> 1, gid |-> 0, size |-> 2, mtime |-> 1] }
      [] OTHER -> {}

\* Path resolution by the kernel from directory `cur' ("file" once a
\* regular file has been reached): empty components and `.' are skipped
RECURSIVE fs_walk(_, _, _)
fs_walk(fs, cur, comps) ==
    IF comps = <<>> THEN [err |-> "", node |-> cur]
    ELSE IF cur = "file" THEN [err |-> "ENOTDIR", node |-> "none"]
    ELSE LET c == Head(comps)
             m == {e \in Members(fs, cur) : e.name = c}
         IN  IF c = <<>> \/ c = <<".">> THEN fs_walk(fs, cur, Tail(comps))
             ELSE IF c = <<".", ".">>
                  THEN IF ParentOf(cur) = "none"
                       THEN [err |-> "ENOENT", node |-> "none"]
                       ELSE fs_walk(fs, ParentOf(cur), Tail(comps))
             ELSE IF m = {} THEN [err |-> "ENOENT", node |-> "none"]
             ELSE fs_walk(fs, (CHOOSE e \in m : TRUE).node, Tail(comps))

fs_resolve(fs, proc_cwd, path) ==
    IF path = <<>> THEN [err |-> "ENOENT", node |-> "none"]
    ELSE fs_walk(fs, IF path[1] = "/" THEN "R" ELSE proc_cwd,
                 explode_path(path))

\* stat (path, &s): errno ("" on success) and S_ISDIR (s.st_mode)
fs_stat(fs, proc_cwd, path) ==
    LET r == fs_resolve(fs, proc_cwd, path)
    IN  [err |-> r.err, isdir |-> r.err = "" /\ r.node # "file"]

\* chdir (path): errno ("" on success) and the new working directory
fs_chdir(fs, proc_cwd, path) ==
    LET r == fs_resolve(fs, proc_cwd, path)
    IN  IF r.err # "" THEN [err |-> r.err, dir |-> proc_cwd]
        ELSE IF r.node = "file" THEN [err |-> "ENOTDIR", dir |-> proc_cwd]
        ELSE [err |-> "", dir |-> r.node]

\* opendir ("."): read permission is needed
fs_opendir_fails(fs, proc_cwd) == proc_cwd \in fs.unreadable

\* ------------------------------------------------------------------------
\* Entries and their order
\* ------------------------------------------------------------------------

\* entry::MODES .. entry::FILENAME, and entry::COLUMNS
COL_MODES == 0
COL_USER == 1
COL_GROUP == 2
COL_SIZE == 3
COL_MTIME == 4
COL_FILENAME == 5
COLUMNS == 6

DOTDOT == <<".", ".">>

\* `static entry invalid': a value-initialised entry
invalid_entry ==
    [filename |-> <<>>, mode |-> 0, tmode |-> 0,
     uid |-> 0, gid |-> 0, size |-> 0, mtime |-> 0]

\* make_entry: the fields of an entry that the navigation reads
make_entry(m) ==
    [filename |-> m.name, mode |-> m.mode, tmode |-> m.tmode,
     uid |-> m.uid, gid |-> m.gid, size |-> m.size, mtime |-> m.mtime]

\* make_entry for the `..' that readdir () returns or reload () makes up
dotdot_entry ==
    [filename |-> DOTDOT, mode |-> ModeDir, tmode |-> 0,
     uid |-> 0, gid |-> 0, size |-> 4, mtime |-> 6]

is_directory(e) == S_ISDIR(e.mode) \/ S_ISDIR(e.tmode)

\* std::tuple<bool, bool> operator<
tuple_less(t1, t2) ==
    \/ (~t1[1] /\ t2[1])
    \/ (t1[1] = t2[1] /\ ~t1[2] /\ t2[2])

column_key(e, sort_column) ==
    CASE sort_column = COL_MODES -> e.mode
      [] sort_column = COL_USER -> e.uid
      [] sort_column = COL_GROUP -> e.gid
      [] sort_column = COL_SIZE -> e.size
      [] sort_column = COL_MTIME -> e.mtime
      [] OTHER -> 0

\* operator< with g.reverse_sort applied before the partition is compared
entry_less_reverse_all(e1, e2, sort_column, reverse_sort) ==
    LET a == IF reverse_sort THEN e2 ELSE e1
        b == IF reverse_sort THEN e1 ELSE e2
        t1 == <<a.filename # DOTDOT, ~is_directory(a)>>
        t2 == <<b.filename # DOTDOT, ~is_directory(b)>>
    IN  IF t1 # t2 THEN tuple_less(t1, t2)
        ELSE IF column_key(a, sort_column) # column_key(b, sort_column)
             THEN column_key(a, sort_column) < column_key(b, sort_column)
             ELSE str_less(a.filename, b.filename)

\* operator< with the filename tie-break left out of g.reverse_sort
entry_less_plain_ties(e1, e2, sort_column, reverse_sort) ==
    LET t1 == <<e1.filename # DOTDOT, ~is_directory(e1)>>
        t2 == <<e2.filename # DOTDOT, ~is_directory(e2)>>
        a == IF reverse_sort THEN e2 ELSE e1
        b == IF reverse_sort THEN e1 ELSE e2
    IN  IF t1 # t2 THEN tuple_less(t1, t2)
        ELSE IF column_key(a, sort_column) # column_key(b, sort_column)
             THEN column_key(a, sort_column) < column_key(b, sort_column)
             ELSE str_less(e1.filename, e2.filename)

\* operator< (const entry &, const entry &) under g.sort_column and
\* g.reverse_sort
entry_less(e1, e2, sort_column, reverse_sort) ==
    LET t1 == <<e1.filename # DOTDOT, ~is_directory(e1)>>
        t2 == <<e2.filename # DOTDOT, ~is_directory(e2)>>
        a == IF reverse_sort THEN e2 ELSE e1
        b == IF reverse_sort THEN e1 ELSE e2
    IN  IF t1 # t2 THEN tuple_less(t1, t2)
        ELSE IF column_key(a, sort_column) # column_key(b, sort_column)
             THEN column_key(a, sort_column) < column_key(b, sort_column)
             ELSE str_less(a.filename, b.filename)

\* std::sort over entries with pairwise distinct filenames: operator< is
\* then a strict total order, and the result is the one sequence in which
\* every entry has exactly the smaller entries before it
RECURSIVE sort_from(_, _, _, _)
sort_from(S, i, sort_column, reverse_sort) ==
    IF i > Cardinality(S) THEN <<>>
    ELSE <<CHOOSE e \in S :
             Cardinality({x \in S :
               entry_less(x, e, sort_column, reverse_sort)}) = i - 1>>
         \o sort_from(S, i + 1, sort_column, reverse_sort)

sort_entries(es, sort_column, reverse_sort) ==
    sort_from({es[i] : i \in 1..Len(es)}, 1, sort_column, reverse_sort)

\* Any enumeration of a set as a sequence (the order readdir () returns)
RECURSIVE set_to_seq(_)
set_to_seq(S) ==
    IF S = {} THEN <<>>
    ELSE LET x == CHOOSE x \in S : TRUE
         IN  <<x>> \o set_to_seq(S \ {x})

\* ------------------------------------------------------------------------
\* The cursor and the viewport
\* ------------------------------------------------------------------------

visible_lines(LINES) == Max(0, LINES - 2)

\* fix_cursor_and_offset without its last statement (the cursor below the
\* window does not pull the offset up)
fix_pair_no_pull(cursor0, offset0, len, LINES) ==
    LET cursor == Max(Min(cursor0, len - 1), 0)
        pushable == visible_lines(LINES) - (len - offset0)
        o1 == offset0 - Max(pushable, 0)
        o2 == Max(Min(o1, len - 1), 0)
        o3 == IF o2 > cursor THEN cursor ELSE o2
    IN  [cursor |-> cursor, offset |-> o3]

\* fix_cursor_and_offset on (cursor, offset) for a listing of length len
fix_pair(cursor0, offset0, len, LINES) ==
    LET cursor == Max(Min(cursor0, len - 1), 0)
        pushable == visible_lines(LINES) - (len - offset0)
        o1 == offset0 - Max(pushable, 0)
        o2 == Max(Min(o1, len - 1), 0)
        o3 == IF o2 > cursor THEN cursor ELSE o2
        o4 == IF cursor - o3 >= visible_lines(LINES)
              THEN cursor - visible_lines(LINES) + 1 ELSE o3
    IN  [cursor |-> cursor, offset |-> o4]

fix_cursor_and_offset(s) ==
    LET r == fix_pair(s.cursor, s.offset, Len(s.entries), s.LINES)
    IN  [s EXCEPT !.cursor = r.cursor, !.offset = r.offset]

at_cursor(s) ==
    IF s.cursor >= Len(s.entries) THEN invalid_entry
    ELSE s.entries[s.cursor + 1]

\* focus: the last index holding the anchor wins
focus(s, anchor) ==
    LET hits == {i \in 1..Len(s.entries) : s.entries[i].filename = anchor}
    IN  IF anchor # <<>> /\ hits # {}
        THEN [s EXCEPT !.cursor =
                 (CHOOSE i \in hits : \A j \in hits : j <= i) - 1]
        ELSE s

\* resort that sorts and leaves the cursor where it was
resort_unfocused(s, anchor) ==
    [s EXCEPT !.entries =
        sort_entries(s.entries, s.sort_column, s.reverse_sort)]

resort(s, anchor) ==
    focus([s EXCEPT !.entries =
              sort_entries(s.entries, s.sort_column, s.reverse_sort)],
          anchor)

\* show_message with the default ttl
MESSAGE_TTL == 30

show_message(s, message) ==
    [s EXCEPT !.message = message, !.message_ttl = MESSAGE_TTL]

\* The loop of filter_selection over g.entries
RECURSIVE filter_loop(_, _, _)
filter_loop(entries, selection, reselection) ==
    IF entries = <<>> THEN reselection
    ELSE filter_loop(Tail(entries), selection,
                     IF Head(entries).filename \in selection
                     THEN reselection \cup {Head(entries).filename}
                     ELSE reselection)

\* filter_selection that keeps what is selected
filter_selection_kept(s, selection) == selection

filter_selection(s, selection) ==
    IF selection # {} THEN filter_loop(s.entries, selection, {}) ELSE {}

\* ------------------------------------------------------------------------
\* reload
\* ------------------------------------------------------------------------

\* What the readdir () loop of reload keeps
listed_entries(s) ==
    {make_entry(m) : m \in {m \in Members(s.fs, s.proc_cwd) :
                              m.name[1] # "." \/ s.show_hidden}}
    \cup (IF s.proc_cwd # "D" /\ s.cwd # <<"/">>
          THEN {dotdot_entry} ELSE {})

RECURSIVE stale_events(_)
stale_events(n) == IF n = 0 THEN <<>> ELSE <<FALSE>> \o stale_events(n - 1)

\* inotify_rm_watch and inotify_add_watch at the end of reload: what is
\* queued belongs to the removed watch from now on, the removal queues
\* IN_IGNORED for it, and the new watch needs read permission
rearm_watch(s) ==
    [s EXCEPT
       !.events = stale_events(Len(s.events))
                  \o (IF s.watch_wd # "none" THEN <<FALSE>> ELSE <<>>),
       !.watch_wd = IF fs_opendir_fails(s.fs, s.proc_cwd)
                    THEN "none" ELSE s.proc_cwd]

clamp_index(i, len) == Max(0, Min(i, len - 1))

\* reload when opendir succeeds: the new entries, then filter_selection
reload_filtered(s) ==
    [s EXCEPT !.selection = filter_selection(s, s.selection)]

\* reload from opendir to the end of the readdir loop; the `readfail' path
\* shows the error, makes up `..' and skips filter_selection
reload_entries(s) ==
    IF fs_opendir_fails(s.fs, s.proc_cwd)
    THEN [show_message(s, <<"EACCES">>) EXCEPT
            !.entries = IF s.cwd # <<"/">> THEN <<dotdot_entry>> ELSE <<>>]
    ELSE reload_filtered([s EXCEPT
                            !.entries = set_to_seq(listed_entries(s))])

\* reload: cursor and offset brought below the new number of entries
reload_clamped(s) ==
    [s EXCEPT !.cursor = clamp_index(s.cursor, Len(s.entries)),
              !.offset = clamp_index(s.offset, Len(s.entries))]

\* reload that never hands the anchor to resort
reload_unfocused(s, keep_anchor) ==
    rearm_watch(reload_clamped(
        resort([reload_entries(s) EXCEPT !.out_of_date = FALSE], <<>>)))

reload(s, keep_anchor) ==
    rearm_watch(reload_clamped(
        resort([reload_entries(s) EXCEPT !.out_of_date = FALSE],
               IF keep_anchor THEN at_cursor(s).filename ELSE <<>>)))

\* ------------------------------------------------------------------------
\* lookup, the history levels and change_dir
\* ------------------------------------------------------------------------

\* lookup that lets a later entry with an equal prefix win
RECURSIVE lookup_scan_last(_, _, _, _, _)
lookup_scan_last(s, needle, i, best, best_n) ==
    IF i >= Len(s.entries) THEN best
    ELSE LET o == (s.cursor + i) % Len(s.entries)
             n == prefix_length(to_wide(s.entries[o + 1].filename), needle)
         IN  IF n >= best_n /\ n > 0
             THEN lookup_scan_last(s, needle, i + 1, o, n)
             ELSE lookup_scan_last(s, needle, i + 1, best, best_n)

RECURSIVE lookup_scan(_, _, _, _, _)
lookup_scan(s, needle, i, best, best_n) ==
    IF i >= Len(s.entries) THEN best
    ELSE LET o == (s.cursor + i) % Len(s.entries)
             n == prefix_length(to_wide(s.entries[o + 1].filename), needle)
         IN  IF n > best_n
             THEN lookup_scan(s, needle, i + 1, o, n)
             ELSE lookup_scan(s, needle, i + 1, best, best_n)

lookup(s, needle) ==
    [s EXCEPT !.cursor = lookup_scan(s, needle, 0, s.cursor, 0)]

\* The while loop of pop_levels: the state and the anchor it leaves
RECURSIVE pop_loop(_, _)
pop_loop(s, anchor) ==
    IF s.levels = <<>> THEN [s |-> s, anchor |-> anchor]
    ELSE LET i == s.levels[Len(s.levels)]
             rest == SubSeq(s.levels, 1, Len(s.levels) - 1)
         IN  IF is_ancestor_dir(i.path, s.cwd)
             THEN [s |-> s, anchor |-> anchor]
             ELSE IF i.path = s.cwd
                  THEN pop_loop([s EXCEPT
                                   !.offset = i.offset,
                                   !.cursor = i.cursor,
                                   !.selection =
                                       filter_selection(s, i.selection),
                                   !.levels = rest],
                                i.filename)
                  ELSE pop_loop([s EXCEPT !.levels = rest], anchor)

\* subpath.substr (0, subpath.find ('/'))
first_component(subpath) ==
    LET at == {n \in 1..Len(subpath) : subpath[n] = "/"}
    IN  IF at = {} THEN subpath
        ELSE SubSeq(subpath, 1, (CHOOSE n \in at : \A m \in at : n <= m) - 1)

\* pop_levels: the anchor after the loop, r being what the loop left
pop_anchor(r, old_cwd) ==
    IF is_ancestor_dir(r.s.cwd, old_cwd)
    THEN first_component(relativize(r.s.cwd, old_cwd))
    ELSE r.anchor

\* pop_levels: the lookup that ends it, after fix_cursor_and_offset
pop_lookup(s, anchor) ==
    IF anchor # <<>> /\ at_cursor(s).filename # anchor
    THEN lookup(s, to_wide(anchor))
    ELSE s

\* pop_levels after its loop
pop_finish(r, old_cwd) ==
    pop_lookup(fix_cursor_and_offset(r.s), pop_anchor(r, old_cwd))

pop_levels(s, old_cwd) == pop_finish(pop_loop(s, <<>>), old_cwd)

\* errno after `stat (parent) || (errno = ENOTDIR, !S_ISDIR (s.st_mode))'
stat_errno(st) == IF st.err = "" /\ ~st.isdir THEN "ENOTDIR" ELSE st.err

\* The component loop of change_dir: errno and the probed path when a `..'
\* probe fails, else the output components
RECURSIVE resolve_components(_, _, _, _, _)
resolve_components(s, in, i, startempty, out) ==
    IF i >= Len(in) THEN [err |-> "", parent |-> <<>>, out |-> out]
    ELSE LET c == in[i + 1]
         IN  IF c = DOTDOT
             THEN LET parent == relativize(s.cwd, serialize_path(out))
                      errno == stat_errno(fs_stat(s.fs, s.proc_cwd, parent))
                  IN  IF errno # ""
                      THEN [err |-> errno, parent |-> parent, out |-> out]
                      ELSE resolve_components(s, in, i + 1, startempty,
                             IF out[Len(out)] # <<>>
                             THEN SubSeq(out, 1, Len(out) - 1) ELSE out)
             ELSE IF c # <<".">> /\ (c # <<>> \/ i < startempty)
                  THEN resolve_components(s, in, i + 1, startempty,
                                          Append(out, c))
                  ELSE resolve_components(s, in, i + 1, startempty, out)

\* change_dir after chdir () has succeeded
\* `level last {g.offset, g.cursor, g.cwd, at_cursor ().filename,
\* g.selection}' of change_dir
level_of(s) ==
    [offset |-> s.offset, cursor |-> s.cursor, path |-> s.cwd,
     filename |-> at_cursor(s).filename, selection |-> s.selection]

\* The end of change_dir when the path has changed: push or pop levels
entered_levels(s, last) ==
    IF is_ancestor_dir(last.path, s.cwd)
    THEN [s EXCEPT !.levels = Append(@, last)]
    ELSE pop_levels(s, last.path)

entered_dir(s, full_path, dir) ==
    IF s.cwd = full_path
    THEN reload([s EXCEPT !.cwd = full_path, !.proc_cwd = dir], TRUE)
    ELSE entered_levels(
           [reload([s EXCEPT !.cwd = full_path, !.proc_cwd = dir,
                             !.selection = {}], FALSE)
              EXCEPT !.offset = 0, !.cursor = 0],
           level_of(s))

\* change_dir up to and including chdir (): the message of the failure
\* (empty on success), the resolved path and the directory entered
\* startempty that gives two leading slashes no special treatment
startempty_single(in) == 1

\* `startempty' of change_dir: 2 for a path that starts with exactly two
\* slashes
startempty_of(in) ==
    IF Len(in) >= 2 /\ in[2] = <<>> /\ (Len(in) < 3 \/ in[3] # <<>>)
    THEN 2 ELSE 1

\* change_dir: the outcome of chdir (relativize (g.cwd, full_path))
chdir_outcome(s, full_path, cd) ==
    IF cd.err # ""
    THEN [message |-> <<cd.err>>, full_path |-> <<>>, dir |-> s.proc_cwd]
    ELSE [message |-> <<>>, full_path |-> full_path, dir |-> cd.dir]

chdir_to(s, full_path) ==
    chdir_outcome(s, full_path,
                  fs_chdir(s.fs, s.proc_cwd, relativize(s.cwd, full_path)))

\* change_dir after its component loop, r being what the loop left
resolved_target(s, r) ==
    IF r.err # ""
    THEN [message |-> r.parent \o <<": ", r.err>>,
          full_path |-> <<>>, dir |-> s.proc_cwd]
    ELSE chdir_to(s, serialize_path(r.out))

components_target(s, in) ==
    resolved_target(s, resolve_components(s, in, 0, startempty_of(in), <<>>))

change_dir_target(s, path) ==
    IF s.cwd = <<>> \/ s.cwd[1] # "/"
    THEN [message |-> <<"cannot figure out absolute path">>,
          full_path |-> <<>>, dir |-> s.proc_cwd]
    ELSE components_target(s, explode_path(absolutize(s.cwd, path)))

\* change_dir that clears the selection before it knows that chdir works
change_dir_result_clearing(s, t) ==
    IF t.message # <<>>
    THEN show_message([s EXCEPT !.selection = {}], t.message)
    ELSE entered_dir(s, t.full_path, t.dir)

\* change_dir once the target is known: the failure is shown, or the
\* directory has been entered
change_dir_result(s, t) ==
    IF t.message # <<>> THEN show_message(s, t.message)
    ELSE entered_dir(s, t.full_path, t.dir)

change_dir(s, path) == change_dir_result(s, change_dir_target(s, path))

\* ------------------------------------------------------------------------
\* Actions of the user in the normal context
\* ------------------------------------------------------------------------

\* The loop of choose over the selection in its order
RECURSIVE chosen_items(_, _, _)
chosen_items(s, items, full) ==
    IF items = <<>> THEN <<>>
    ELSE <<IF full THEN absolutize(s.cwd, Head(items)) ELSE Head(items)>>
         \o chosen_items(s, Tail(items), full)

choose(s, entry, full) ==
    [s EXCEPT
       !.chosen = @ \o chosen_items(s,
                         sort_strings(IF s.selection = {}
                                      THEN {entry.filename}
                                      ELSE s.selection),
                         full),
       !.selection = {},
       !.no_chdir = full,
       !.quitting = TRUE]

enter(s, entry) ==
    IF ~is_directory(entry) THEN choose(s, entry, FALSE)
    ELSE change_dir(s, entry.filename)

\* fnmatch (pattern, name, FNM_PATHNAME) == 0 for patterns of literal
\* characters and `*', on names without a slash
RECURSIVE fnmatch(_, _)
fnmatch(pattern, name) ==
    IF pattern = <<>> THEN name = <<>>
    ELSE IF Head(pattern) = "*"
         THEN \/ fnmatch(Tail(pattern), name)
              \/ (name # <<>> /\ fnmatch(pattern, Tail(name)))
         ELSE /\ name # <<>>
              /\ Head(name) = Head(pattern)
              /\ fnmatch(Tail(pattern), Tail(name))

select_matches(s, editor_line, dotdot) ==
    {s.entries[i].filename : i \in
       {i \in 1..Len(s.entries) :
          /\ (dotdot \/ s.entries[i].filename # DOTDOT)
          /\ fnmatch(editor_line, s.entries[i].filename)}}

\* match with the scan started at the cursor whatever push is
RECURSIVE match_scan_from_cursor(_, _, _, _, _, _)
match_scan_from_cursor(s, pattern, push, jump_to_first, i, r) ==
    LET count == Len(s.entries)
        step == IF push = 0 THEN 1 ELSE push
        o == (s.cursor + (count + i * step) + count) % count
    IN  IF i >= count THEN r
        ELSE match_scan_from_cursor(s, pattern, push, jump_to_first, i + 1,
               IF fnmatch(pattern, s.entries[o + 1].filename)
               THEN [best |-> IF r.matches = 0 /\ jump_to_first
                              THEN o ELSE r.best,
                     matches |-> r.matches + 1]
               ELSE r)

\* The loop of match from iteration i, r being `best' and `matches'
RECURSIVE match_scan(_, _, _, _, _, _)
match_scan(s, pattern, push, jump_to_first, i, r) ==
    LET count == Len(s.entries)
        step == push + (IF push = 0 THEN 1 ELSE 0)
        o == (s.cursor + (count + i * step) + (count + push)) % count
    IN  IF i >= count THEN r
        ELSE match_scan(s, pattern, push, jump_to_first, i + 1,
               IF fnmatch(pattern, s.entries[o + 1].filename)
               THEN [best |-> IF r.matches = 0 /\ jump_to_first
                              THEN o ELSE r.best,
                     matches |-> r.matches + 1]
               ELSE r)

\* match reads g.entries[g.cursor] without a test
reads_outside(s) == s.cursor < 0 \/ s.cursor >= Len(s.entries)

\* `fnmatch (pattern, g.entries[g.cursor].filename) == FNM_NOMATCH' of
\* match.  The read outside the listing is undefined; where the process
\* survives it on an empty listing, the loop of match does not run and
\* the value is not used.
cursor_entry_differs(s, pattern) ==
    reads_outside(s) \/ ~fnmatch(pattern, s.entries[s.cursor + 1].filename)

\* match: the new cursor (best) and the returned number of matches
match_pattern(s, pattern, push) ==
    match_scan(s, pattern, push,
               push # 0 \/ cursor_entry_differs(s, pattern),
               0, [best |-> s.cursor, matches |-> 0])

match(s, needle, push) == match_pattern(s, to_mb(needle) \o <<"*">>, push)

\* getenv ("HOME")
HOME == <<"/", "a">>

\* untilde; no user of the model has a home directory of their own
untilde(path) ==
    IF path = <<>> THEN path
    ELSE IF path[1] = "\\" THEN Tail(path)
    ELSE IF path[1] # "~" THEN path
    ELSE IF Len(path) = 1 \/ path[2] = "/" THEN HOME \o Tail(path)
    ELSE path

\* The switch of handle (c) for the action bound to c; arg is the line the
\* user confirms in the prompt the action opens (chdir, select, deselect)
dispatch(s, action, arg) ==
    LET current == at_cursor(s)
        len == Len(s.entries)
        vl == visible_lines(s.LINES)
    IN  CASE action = "CHOOSE_FULL" -> choose(s, current, TRUE)
          [] action = "CHOOSE" -> choose(s, current, FALSE)
          [] action = "ENTER" -> enter(s, current)
          [] action = "QUIT_NO_CHDIR" ->
               [s EXCEPT !.no_chdir = TRUE, !.quitting = TRUE]
          [] action = "QUIT" -> [s EXCEPT !.quitting = TRUE]
          [] action = "SORT_LEFT" ->
               resort([s EXCEPT !.sort_column =
                          (s.sort_column + COLUMNS - 1) % COLUMNS],
                      current.filename)
          [] action = "SORT_RIGHT" ->
               resort([s EXCEPT !.sort_column =
                          (s.sort_column + COLUMNS + 1) % COLUMNS],
                      current.filename)
          [] action = "SELECT" ->
               [s EXCEPT !.selection =
                   @ \cup select_matches(s, arg, FALSE)]
          [] action = "DESELECT" ->
               [s EXCEPT !.selection = @ \ select_matches(s, arg, TRUE)]
          [] action = "SELECT_TOGGLE" ->
               [s EXCEPT
                  !.selection = IF current.filename \in @
                                THEN @ \ {current.filename}
                                ELSE @ \cup {current.filename},
                  !.cursor = @ + 1]
          [] action = "SELECT_ABORT" -> [s EXCEPT !.selection = {}]
          [] action = "UP" -> [s EXCEPT !.cursor = @ - 1]
          [] action = "DOWN" -> [s EXCEPT !.cursor = @ + 1]
          [] action = "TOP" -> [s EXCEPT !.cursor = 0]
          [] action = "BOTTOM" -> [s EXCEPT !.cursor = len - 1]
          [] action = "HIGH" -> [s EXCEPT !.cursor = s.offset]
          [] action = "MIDDLE" ->
               [s EXCEPT !.cursor =
                   s.offset + (Min(len - s.offset, vl) - 1) \div 2]
          [] action = "LOW" -> [s EXCEPT !.cursor = s.offset + vl - 1]
          [] action = "PAGE_PREVIOUS" -> [s EXCEPT !.cursor = @ - s.LINES]
          [] action = "PAGE_NEXT" -> [s EXCEPT !.cursor = @ + s.LINES]
          [] action = "SCROLL_DOWN" -> [s EXCEPT !.offset = @ + 1]
          [] action = "SCROLL_UP" -> [s EXCEPT !.offset = @ - 1]
          [] action = "CENTER" ->
               [s EXCEPT !.offset = s.cursor - (vl - 1) \div 2]
          [] action = "CHDIR" -> change_dir(s, untilde(arg))
          [] action = "PARENT" -> change_dir(s, DOTDOT)
          [] action = "GO_START" -> change_dir(s, s.start_dir)
          [] action = "GO_HOME" -> change_dir(s, untilde(<<"~">>))
          [] action = "REVERSE_SORT" ->
               resort([s EXCEPT !.reverse_sort = ~@], current.filename)
          [] action = "SHOW_HIDDEN" ->
               reload([s EXCEPT !.show_hidden = ~@], TRUE)
          [] action = "RELOAD" -> reload(s, TRUE)
          [] OTHER -> s

\* ------------------------------------------------------------------------
\* Keys and bindings
\* ------------------------------------------------------------------------

\* A key is named as the bindings file names it: a one-character string is
\* that character, "C-x" a control character, "CR" is '\r', "BS" '\b',
\* "ESC" 27, "M-x" carries ALT, "KEY_..." carries SYM, and "U+0301" is the
\* combining acute accent as the terminal sends it.
AltKeys == {"M-q", "M-e"}
SymKeys == {"KEY_UP", "KEY_DOWN", "KEY_F7"}
ControlKeys ==
    {"CR", "BS", "ESC", "C-a", "C-b", "C-d", "C-e", "C-f", "C-k", "C-u",
     "C-v", "C-w", "C-x"}

\* c & (ALT | SYM)
alt_or_sym(c) == c \in AltKeys \cup SymKeys

\* wcwidth: -1 for a control character, 0 for a combining character
wcwidth(c) ==
    IF c = "U+0301" THEN 0 ELSE IF c \in ControlKeys THEN 0 - 1 ELSE 1

\* g_normal_actions for the keys of the model, as compiled in
normal_default(c) ==
    CASE c = "CR" -> "ENTER"
      [] c = "q" -> "QUIT" [] c = "M-q" -> "QUIT_NO_CHDIR"
      [] c = "+" -> "SELECT" [] c = "-" -> "DESELECT"
      [] c = "ESC" -> "SELECT_ABORT"
      [] c = "KEY_UP" -> "UP" [] c = "KEY_DOWN" -> "DOWN"
      [] c = "C-e" -> "SCROLL_DOWN"
      [] c = "c" -> "CHDIR" [] c = "/" -> "SEARCH"
      [] c = "M-e" -> "RENAME_PREFILL" [] c = "e" -> "RENAME"
      [] c = "KEY_F7" -> "MKDIR"
      [] OTHER -> "NONE"

\* g_input_actions for the keys of the model, as compiled in
input_default(c) ==
    CASE c = "ESC" -> "INPUT_ABORT" [] c = "CR" -> "INPUT_CONFIRM"
      [] c = "BS" -> "INPUT_B_DELETE" [] c = "C-d" -> "INPUT_DELETE"
      [] c = "C-w" -> "INPUT_B_KILL_WORD"
      [] c = "C-u" -> "INPUT_B_KILL_LINE"
      [] c = "C-k" -> "INPUT_KILL_LINE"
      [] c = "C-v" -> "INPUT_QUOTED_INSERT"
      [] c = "C-b" -> "INPUT_BACKWARD" [] c = "C-f" -> "INPUT_FORWARD"
      [] c = "C-a" -> "INPUT_BEGINNING" [] c = "C-e" -> "INPUT_END"
      [] OTHER -> "NONE"

\* g_search_actions, as compiled in
search_default(c) ==
    CASE c = "KEY_UP" -> "UP" [] c = "KEY_DOWN" -> "DOWN"
      [] c = "/" -> "ENTER"
      [] OTHER -> "NONE"

\* load_bindings: a line <<context, key, action>> of the bindings file
\* replaces what the context's table has for the key
user_bound(bindings, context, c) ==
    {b \in bindings : b[1] = context /\ b[2] = c}

\* The table of a context after load_bindings; "NONE" stands for a key
\* that the table does not hold
g_normal_actions(bindings, c) ==
    IF user_bound(bindings, "normal", c) # {}
    THEN (CHOOSE b \in user_bound(bindings, "normal", c) : TRUE)[3]
    ELSE normal_default(c)

g_input_actions(bindings, c) ==
    IF user_bound(bindings, "input", c) # {}
    THEN (CHOOSE b \in user_bound(bindings, "input", c) : TRUE)[3]
    ELSE input_default(c)

g_search_actions(bindings, c) ==
    IF user_bound(bindings, "search", c) # {}
    THEN (CHOOSE b \in user_bound(bindings, "search", c) : TRUE)[3]
    ELSE search_default(c)

\* ------------------------------------------------------------------------
\* The line editor
\* ------------------------------------------------------------------------

\* rename (old, new) and mkdir (name) in the working directory: errno, ""
\* on success.  No directory of the model is writable for the user, so
\* the calls that would change one fail with EACCES.
fs_rename(s, old, new) ==
    IF old = <<>> \/ new = <<>> THEN "ENOENT"
    ELSE IF fs_resolve(s.fs, s.proc_cwd, old).err # ""
         THEN fs_resolve(s.fs, s.proc_cwd, old).err
         ELSE IF new = old THEN "" ELSE "EACCES"

fs_mkdir(s, name) ==
    IF name = <<>> THEN "ENOENT"
    ELSE IF fs_resolve(s.fs, s.proc_cwd, name).err = "" THEN "EEXIST"
    ELSE IF "/" \in {name[i] : i \in 1..Len(name)}
         THEN fs_resolve(s.fs, s.proc_cwd, name).err
         ELSE "EACCES"

matches_to_editor_info(editor_line, matches) ==
    IF editor_line = <<>> THEN <<>>
    ELSE IF matches = 0 THEN <<"(no match)">>
    ELSE IF matches = 1 THEN <<"(1 match)">>
    ELSE <<"(", ToString(matches), " matches)">>

\* match_interactive once match has returned r
matched(s, r) ==
    [s EXCEPT !.cursor = r.best,
              !.editor_info = matches_to_editor_info(s.editor_line, r.matches)]

match_interactive(s, push) == matched(s, match(s, s.editor_line, push))

select_interactive(s, dotdot) ==
    [s EXCEPT !.editor_info =
        matches_to_editor_info(s.editor_line,
            Cardinality(select_matches(s, to_mb(s.editor_line), dotdot)))]

\* g.editor_on_change (), one of the lambdas that handle installs
run_on_change(s) ==
    CASE s.editor_on_change = "select" -> select_interactive(s, FALSE)
      [] s.editor_on_change = "deselect" -> select_interactive(s, TRUE)
      [] s.editor_on_change = "search" -> match_interactive(s, 0)
      [] OTHER -> s

\* The lambdas of the rename and mkdir prompts after the system call
renamed(s, errno) ==
    reload(IF errno # "" THEN show_message(s, <<errno>>) ELSE s, TRUE)

made_dir(s, errno, mb) ==
    focus(reload(IF errno # "" THEN show_message(s, <<errno>>) ELSE s, TRUE),
          mb)

\* g.editor_on[action] (), one of the lambdas that handle installs for the
\* prompt g.editor
run_handler(s, action) ==
    CASE s.editor = "select" /\ action = "INPUT_CONFIRM" ->
           [s EXCEPT !.selection =
               @ \cup select_matches(s, to_mb(s.editor_line), FALSE)]
      [] s.editor = "deselect" /\ action = "INPUT_CONFIRM" ->
           [s EXCEPT !.selection =
               @ \ select_matches(s, to_mb(s.editor_line), TRUE)]
      [] s.editor = "chdir" /\ action = "INPUT_CONFIRM" ->
           change_dir(s, untilde(to_mb(s.editor_line)))
      [] s.editor = "search" /\ action = "UP" -> match_interactive(s, 0 - 1)
      [] s.editor = "search" /\ action = "DOWN" -> match_interactive(s, 1)
      [] s.editor = "search" /\ action = "INPUT_CONFIRM" ->
           enter(s, at_cursor(s))
      [] s.editor = "search" /\ action = "ENTER" ->
           [enter(s, at_cursor(s)) EXCEPT !.editor_line = <<>>,
                                          !.editor_cursor = 0]
      [] s.editor = "rename" /\ action = "INPUT_CONFIRM" ->
           renamed(s, fs_rename(s, at_cursor(s).filename,
                                to_mb(s.editor_line)))
      [] s.editor = "mkdir" /\ action = "INPUT_CONFIRM" ->
           made_dir(s, fs_mkdir(s, to_mb(s.editor_line)),
                    to_mb(s.editor_line))
      [] OTHER -> s

\* The second half of move_towards_spacing, g.editor_cursor having moved
at_spacing(line, cursor) ==
    \/ cursor <= 0
    \/ cursor >= Len(line)
    \/ wcwidth(line[cursor + 1]) # 0

\* line.erase (pos, 1) and line.insert (pos, 1, c)
erase_at(line, pos) ==
    SubSeq(line, 1, pos) \o SubSeq(line, pos + 2, Len(line))

insert_at(line, pos, c) ==
    SubSeq(line, 1, pos) \o <<c>> \o SubSeq(line, pos + 1, Len(line))

RECURSIVE input_backward(_, _)
input_backward(line, cursor) ==
    IF cursor <= 0 THEN cursor
    ELSE IF at_spacing(line, cursor - 1) THEN cursor - 1
    ELSE input_backward(line, cursor - 1)

\* INPUT_FORWARD that moves by one code point
RECURSIVE input_forward_one(_, _)
input_forward_one(line, cursor) ==
    IF cursor >= Len(line) THEN cursor ELSE cursor + 1

\* INPUT_FORWARD without the test for the end of the line
RECURSIVE input_forward_past(_, _)
input_forward_past(line, cursor) ==
    IF at_spacing(line, cursor + 1) THEN cursor + 1
    ELSE input_forward_past(line, cursor + 1)

RECURSIVE input_forward(_, _)
input_forward(line, cursor) ==
    IF cursor >= Len(line) THEN cursor
    ELSE IF at_spacing(line, cursor + 1) THEN cursor + 1
    ELSE input_forward(line, cursor + 1)

\* INPUT_B_DELETE that erases one code point only
RECURSIVE input_b_delete_one(_, _)
input_b_delete_one(line, cursor) ==
    IF cursor <= 0 THEN [line |-> line, cursor |-> cursor]
    ELSE [line |-> erase_at(line, cursor - 1), cursor |-> cursor - 1]

\* The loop of INPUT_B_DELETE: the spacing test comes before the erasure
RECURSIVE input_b_delete(_, _)
input_b_delete(line, cursor) ==
    IF cursor <= 0 THEN [line |-> line, cursor |-> cursor]
    ELSE IF at_spacing(line, cursor - 1)
         THEN [line |-> erase_at(line, cursor - 1), cursor |-> cursor - 1]
         ELSE input_b_delete(erase_at(line, cursor - 1), cursor - 1)

\* The loop of INPUT_DELETE: the spacing test comes after the erasure
RECURSIVE input_delete(_, _)
input_delete(line, cursor) ==
    IF cursor >= Len(line) THEN line
    ELSE IF at_spacing(erase_at(line, cursor), cursor)
         THEN erase_at(line, cursor)
         ELSE input_delete(erase_at(line, cursor), cursor)

\* A first loop of INPUT_B_KILL_WORD that steps back once
RECURSIVE kill_skip_one(_, _)
kill_skip_one(line, i) == IF i = 0 THEN 0 ELSE i - 1

\* `while (i && g.editor_line[--i] == L' ');'
RECURSIVE kill_skip_spaces(_, _)
kill_skip_spaces(line, i) ==
    IF i = 0 THEN 0
    ELSE IF line[i] = " " THEN kill_skip_spaces(line, i - 1)
    ELSE i - 1

\* `while (i-- && g.editor_line[i] != L' '); i++;'
RECURSIVE kill_skip_word(_, _)
kill_skip_word(line, i) ==
    IF i = 0 THEN 0
    ELSE IF line[i] # " " THEN kill_skip_word(line, i - 1)
    ELSE i

\* The case of the switch of handle_editor that is not INPUT_CONFIRM or
\* INPUT_ABORT
editor_case(s, action, c) ==
    CASE action = "INPUT_BEGINNING" -> [s EXCEPT !.editor_cursor = 0]
      [] action = "INPUT_END" ->
           [s EXCEPT !.editor_cursor = Len(s.editor_line)]
      [] action = "INPUT_BACKWARD" ->
           [s EXCEPT !.editor_cursor =
               input_backward(s.editor_line, s.editor_cursor)]
      [] action = "INPUT_FORWARD" ->
           [s EXCEPT !.editor_cursor =
               input_forward(s.editor_line, s.editor_cursor)]
      [] action = "INPUT_B_DELETE" ->
           [s EXCEPT
              !.editor_line =
                  input_b_delete(s.editor_line, s.editor_cursor).line,
              !.editor_cursor =
                  input_b_delete(s.editor_line, s.editor_cursor).cursor]
      [] action = "INPUT_DELETE" ->
           [s EXCEPT !.editor_line =
               input_delete(s.editor_line, s.editor_cursor)]
      [] action = "INPUT_B_KILL_WORD" ->
           [s EXCEPT
              !.editor_line =
                  SubSeq(s.editor_line, 1,
                         kill_skip_word(s.editor_line,
                             kill_skip_spaces(s.editor_line,
                                              s.editor_cursor)))
                  \o SubSeq(s.editor_line, s.editor_cursor + 1,
                            Len(s.editor_line)),
              !.editor_cursor =
                  kill_skip_word(s.editor_line,
                      kill_skip_spaces(s.editor_line, s.editor_cursor))]
      [] action = "INPUT_B_KILL_LINE" ->
           [s EXCEPT !.editor_line =
                         SubSeq(@, s.editor_cursor + 1, Len(@)),
                     !.editor_cursor = 0]
      [] action = "INPUT_KILL_LINE" ->
           [s EXCEPT !.editor_line = SubSeq(@, 1, s.editor_cursor)]
      [] action = "INPUT_QUOTED_INSERT" ->
           [s EXCEPT !.editor_inserting = TRUE]
      [] OTHER ->
           IF action \in s.editor_on THEN run_handler(s, action)
           ELSE IF alt_or_sym(c) THEN s
           ELSE [s EXCEPT
                   !.editor_line = insert_at(@, s.editor_cursor, c),
                   !.editor_cursor = @ + 1]

\* A teardown that leaves the line and the cursor to the next prompt
editor_closed_keeping(s) ==
    [s EXCEPT !.editor = "", !.editor_info = <<>>,
              !.editor_inserting = FALSE,
              !.editor_on_change = "", !.editor_on = {}]

\* The teardown of the prompt
editor_closed(s) ==
    [s EXCEPT !.editor = "", !.editor_info = <<>>, !.editor_line = <<>>,
              !.editor_cursor = 0, !.editor_inserting = FALSE,
              !.editor_on_change = "", !.editor_on = {}]

\* The end of handle_editor: the hook runs when the line has changed
editor_changed(s, original) ==
    IF s.editor_on_change # "" /\ s.editor_line # original
    THEN run_on_change(s) ELSE s

\* The action that handle_editor finds for the key
editor_action(s, c) ==
    IF s.editor_inserting THEN "NONE"
    ELSE IF s.editor = "search" /\ g_search_actions(s.bindings, c) # "NONE"
         THEN g_search_actions(s.bindings, c)
         ELSE g_input_actions(s.bindings, c)

\* handle_editor that leaves the prompt open when the confirm handler has
\* reported an error
editor_switch_unless_error(s, action, c) ==
    IF action = "INPUT_CONFIRM"
    THEN IF run_handler(s, action).message # s.message
         THEN run_handler(s, action)
         ELSE editor_closed(run_handler(s, action))
    ELSE IF action = "INPUT_ABORT" THEN editor_closed(s)
    ELSE editor_changed(editor_case(s, action, c), s.editor_line)

\* The switch of handle_editor
editor_switch(s, action, c) ==
    IF action = "INPUT_CONFIRM"
    THEN editor_closed(IF action \in s.editor_on
                       THEN run_handler(s, action) ELSE s)
    ELSE IF action = "INPUT_ABORT" THEN editor_closed(s)
    ELSE editor_changed(editor_case(s, action, c), s.editor_line)

handle_editor(s, c) ==
    editor_switch([s EXCEPT !.editor_inserting = FALSE],
                  editor_action(s, c), c)

\* The cases of handle that open a prompt
open_prompt(s, action) ==
    CASE action = "SELECT" ->
           [s EXCEPT !.editor = "select", !.editor_on_change = "select",
                     !.editor_on = @ \cup {"INPUT_CONFIRM"}]
      [] action = "DESELECT" ->
           [s EXCEPT !.editor = "deselect", !.editor_on_change = "deselect",
                     !.editor_on = @ \cup {"INPUT_CONFIRM"}]
      [] action = "CHDIR" ->
           [s EXCEPT !.editor = "chdir",
                     !.editor_on = @ \cup {"INPUT_CONFIRM"}]
      [] action = "SEARCH" ->
           [s EXCEPT !.editor = "search", !.editor_on_change = "search",
                     !.editor_on = @ \cup {"UP", "DOWN", "INPUT_CONFIRM",
                                           "ENTER"}]
      [] action = "RENAME_PREFILL" ->
           [s EXCEPT !.editor_line = to_wide(at_cursor(s).filename),
                     !.editor_cursor = Len(to_wide(at_cursor(s).filename)),
                     !.editor = "rename",
                     !.editor_on = @ \cup {"INPUT_CONFIRM"}]
      [] action = "RENAME" ->
           [s EXCEPT !.editor = "rename",
                     !.editor_on = @ \cup {"INPUT_CONFIRM"}]
      [] action = "MKDIR" ->
           [s EXCEPT !.editor = "mkdir",
                     !.editor_on = @ \cup {"INPUT_CONFIRM"}]

PromptActions ==
    {"SELECT", "DESELECT", "CHDIR", "SEARCH", "RENAME_PREFILL", "RENAME",
     "MKDIR"}

\* The switch of handle for the key c when no prompt is collapsed into
\* the step
normal_switch(s, action) ==
    IF action \in PromptActions THEN open_prompt(s, action)
    ELSE dispatch(s, action, <<>>)

\* handle that hands the key to the normal switch after the editor
handle_key_twice(s, c) ==
    fix_cursor_and_offset(
        IF s.editor # ""
        THEN normal_switch(handle_editor(s, c),
                           g_normal_actions(s.bindings, c))
        ELSE normal_switch(s, g_normal_actions(s.bindings, c)))

\* handle (c), c being a key (not WEOF): an active editor eats the key
handle_key(s, c) ==
    fix_cursor_and_offset(
        IF s.editor # ""
        THEN normal_switch(handle_editor(s, c), "NONE")
        ELSE normal_switch(s, g_normal_actions(s.bindings, c)))

\* handle (c): the switch, then fix_cursor_and_offset
handle(s, action, arg) == fix_cursor_and_offset(dispatch(s, action, arg))

\* watch_check: each pass of the loop over a batch looks at the first
\* event of the buffer again
watch_check(s) ==
    LET changed == s.events # <<>> /\ Head(s.events)
    IN  [s EXCEPT !.events = <<>>, !.out_of_date = changed]

\* ------------------------------------------------------------------------
\* Shell quoting and the output of main
\* ------------------------------------------------------------------------

\* The bytes that needs_shell_quoting looks for: the list of the source
\* holds the two bytes of U+02DC SMALL TILDE, and no `~'; 0x60 is the
\* backquote
QuotedBytes ==
    {"|", "&", ";", "<", ">", "(", ")", "$", "0x60", "\\", "\"", "'", " ",
     "\t", "\n", "*", "?", "[", "#", "0xCB", "0x9C", "=", "%", "!"}

needs_shell_quoting(v) ==
    v = <<>> \/ \E i \in 1..Len(v) : v[i] \in QuotedBytes

\* The loop of shell_escape: ' becomes '\''
RECURSIVE escape_quotes(_)
escape_quotes(v) ==
    IF v = <<>> THEN <<>>
    ELSE (IF Head(v) = "'" THEN <<"'", "\\", "'", "'">> ELSE <<Head(v)>>)
         \o escape_quotes(Tail(v))

\* shell_escape that puts every value in quotes
shell_escape_always(v) == <<"'">> \o escape_quotes(v) \o <<"'">>

shell_escape(v) ==
    IF ~needs_shell_quoting(v) THEN v
    ELSE <<"'">> \o escape_quotes(v) \o <<"'">>

\* run_program when helpers are launched by the shell (ext-helpers 1):
\* the command line is left in g.ext_helper and the program quits
run_program_ext(s, program, filename) ==
    [s EXCEPT !.ext_helper =
                 program
                 \o (IF filename # <<>> /\ Head(filename) = "-"
                     THEN <<" ", "-", "-", " ">> ELSE <<" ">>)
                 \o shell_escape(filename),
              !.quitting = TRUE]

\* `chosen' of main: the items quoted one by one, a space between them
RECURSIVE join_chosen(_, _)
join_chosen(items, chosen) ==
    IF items = <<>> THEN chosen
    ELSE join_chosen(Tail(items),
                     (IF chosen # <<>> THEN chosen \o <<" ">> ELSE chosen)
                     \o shell_escape(Head(items)))

\* A line `local name=text' of the output
directive(name, text) == <<"local ", name, "=">> \o text

\* main that writes the directory whenever it has changed
main_output_cd_always(s) ==
    << directive("cd", IF s.cwd # s.start_dir
                       THEN shell_escape(s.cwd) ELSE <<>>),
       directive("insert", shell_escape(join_chosen(s.chosen, <<>>))),
       directive("helper", shell_escape(s.ext_helper)) >>

\* What main writes after the event loop
main_output(s) ==
    << directive("cd", IF s.cwd # s.start_dir /\ ~s.no_chdir
                       THEN shell_escape(s.cwd) ELSE <<>>),
       directive("insert", shell_escape(join_chosen(s.chosen, <<>>))),
       directive("helper", shell_escape(s.ext_helper)) >>

\* ------------------------------------------------------------------------
\* The configuration file
\* ------------------------------------------------------------------------

Digits == <<"0", "1", "2", "3", "4", "5", "6", "7", "8", "9">>

\* std::to_string of an int that is not negative
RECURSIVE to_string(_)
to_string(n) ==
    IF n < 10 THEN <<Digits[n + 1]>>
    ELSE to_string(n \div 10) \o <<Digits[(n % 10) + 1]>>

\* stoi of a text of decimal digits
RECURSIVE stoi_from(_, _)
stoi_from(v, n) ==
    IF v = <<>> THEN n
    ELSE stoi_from(Tail(v),
                   10 * n + (CHOOSE d \in 0..9 : Digits[d + 1] = Head(v)))

stoi(v) == stoi_from(v, 0)

\* write_line: the tokens quoted for parse_line, a space between them,
\* and the end of the line
RECURSIVE write_tokens(_, _)
write_tokens(in, first) ==
    IF in = <<>> THEN <<"\n">>
    ELSE (IF first THEN <<>> ELSE <<" ">>) \o shell_escape(Head(in))
         \o write_tokens(Tail(in), FALSE)

write_line(in) == write_tokens(in, TRUE)

\* The column of parse_line's table for a byte; <<>> is the end of file
char_class(text) ==
    IF text = <<>> THEN "EOF"
    ELSE CASE Head(text) \in {" ", "\t"} -> "SP"
           [] Head(text) = "'" -> "QUOTE"
           [] Head(text) = "#" -> "HASH"
           [] Head(text) = "\\" -> "BACKSLASH"
           [] Head(text) = "\n" -> "LF"
           [] OTHER -> "default"

\* The table of parse_line: the flags and the next state (0 for none)
edge(take, push, stop, error, to) ==
    [take |-> take, push |-> push, stop |-> stop, error |-> error,
     to |-> to]

parse_edge(state, class) ==
    CASE state = "STA" ->
           (CASE class = "EOF" -> edge(FALSE, FALSE, FALSE, TRUE, "")
              [] class = "SP" -> edge(FALSE, FALSE, FALSE, FALSE, "DEF")
              [] class = "QUOTE" -> edge(FALSE, FALSE, FALSE, FALSE, "QUO")
              [] class = "HASH" -> edge(FALSE, FALSE, FALSE, FALSE, "COM")
              [] class = "BACKSLASH" ->
                   edge(FALSE, FALSE, FALSE, FALSE, "ESC")
              [] class = "LF" -> edge(FALSE, FALSE, TRUE, FALSE, "")
              [] OTHER -> edge(TRUE, FALSE, FALSE, FALSE, "WOR"))
      [] state = "DEF" ->
           (CASE class = "EOF" -> edge(FALSE, FALSE, TRUE, FALSE, "")
              [] class = "SP" -> edge(FALSE, FALSE, FALSE, FALSE, "")
              [] class = "QUOTE" -> edge(FALSE, FALSE, FALSE, FALSE, "QUO")
              [] class = "HASH" -> edge(FALSE, FALSE, FALSE, FALSE, "COM")
              [] class = "BACKSLASH" ->
                   edge(FALSE, FALSE, FALSE, FALSE, "ESC")
              [] class = "LF" -> edge(FALSE, FALSE, TRUE, FALSE, "")
              [] OTHER -> edge(TRUE, FALSE, FALSE, FALSE, "WOR"))
      [] state = "COM" ->
           (CASE class \in {"EOF", "LF"} ->
                   edge(FALSE, FALSE, TRUE, FALSE, "")
              [] OTHER -> edge(FALSE, FALSE, FALSE, FALSE, ""))
      [] state = "ESC" ->
           (CASE class = "EOF" -> edge(FALSE, FALSE, FALSE, TRUE, "")
              [] OTHER -> edge(TRUE, FALSE, FALSE, FALSE, "WOR"))
      [] state = "WOR" ->
           (CASE class = "EOF" -> edge(FALSE, TRUE, TRUE, FALSE, "")
              [] class = "SP" -> edge(FALSE, TRUE, FALSE, FALSE, "DEF")
              [] class = "QUOTE" -> edge(FALSE, FALSE, FALSE, FALSE, "QUO")
              [] class = "HASH" -> edge(TRUE, FALSE, FALSE, FALSE, "")
              [] class = "BACKSLASH" ->
                   edge(FALSE, FALSE, FALSE, FALSE, "ESC")
              [] class = "LF" -> edge(FALSE, TRUE, TRUE, FALSE, "")
              [] OTHER -> edge(TRUE, FALSE, FALSE, FALSE, ""))
      [] state = "QUO" ->
           (CASE class = "EOF" -> edge(FALSE, FALSE, FALSE, TRUE, "")
              [] class = "QUOTE" -> edge(FALSE, FALSE, FALSE, FALSE, "WOR")
              [] OTHER -> edge(TRUE, FALSE, FALSE, FALSE, ""))

\* The loop of parse_line from `state' on: whether a line was read, its
\* tokens, and what is left of the stream
RECURSIVE parse_scan(_, _, _, _)
parse_scan(text, state, token, out) ==
    IF parse_edge(state, char_class(text)).stop
    THEN [ok |-> TRUE,
          out |-> IF parse_edge(state, char_class(text)).push
                  THEN Append(out, token) ELSE out,
          rest |-> IF text = <<>> THEN text ELSE Tail(text)]
    ELSE IF parse_edge(state, char_class(text)).error
    THEN [ok |-> FALSE, out |-> out, rest |-> text]
    ELSE parse_scan(
           Tail(text),
           IF parse_edge(state, char_class(text)).to # ""
           THEN parse_edge(state, char_class(text)).to ELSE state,
           IF parse_edge(state, char_class(text)).push THEN <<>>
           ELSE IF parse_edge(state, char_class(text)).take
                THEN Append(token, Head(text)) ELSE token,
           IF parse_edge(state, char_class(text)).push
           THEN Append(out, token) ELSE out)

parse_line(is) == parse_scan(is, "STA", <<>>, <<>>)

\* load_history_level: the hostname v[1] and the parent PID v[2] of the
\* line (v.at (1), v.at (2)) are not looked at
load_history_level(levels, v) ==
    IF Len(v) < 7 THEN levels
    ELSE Append(levels,
                [offset |-> stoi(v[5]), cursor |-> stoi(v[6]),
                 path |-> v[4], filename |-> v[7],
                 selection |-> {v[i] : i \in 8..Len(v)}])

\* One line of the configuration applied to the settings c
load_tokens(c, v) ==
    IF v = <<>> THEN c
    ELSE IF v[1] = <<"history">>
    THEN [c EXCEPT !.levels = load_history_level(@, v)]
    ELSE IF Len(v) < 2 THEN c
    ELSE CASE v[1] = <<"reverse-sort">> ->
                [c EXCEPT !.reverse_sort = (v[2] = <<"1">>)]
           [] v[1] = <<"show-hidden">> ->
                [c EXCEPT !.show_hidden = (v[2] = <<"1">>)]
           [] v[1] = <<"sort-column">> ->
                [c EXCEPT !.sort_column = stoi(v[2])]
           [] OTHER -> c

\* The loop of load_config over the stream
RECURSIVE load_lines(_, _)
load_lines(is, c) ==
    IF ~parse_line(is).ok THEN c
    ELSE load_lines(parse_line(is).rest, load_tokens(c, parse_line(is).out))

\* load_config on the contents of the file; nothing is set without one
load_config(config) ==
    load_lines(config,
               [reverse_sort |-> FALSE, show_hidden |-> FALSE,
                sort_column |-> COL_FILENAME, levels |-> <<>>])

\* gethostname and getppid of this session, the latter as text
hostname == <<"h">>
ppid == <<"7">>

\* One history line of save_config in a session of parent p on host h
history_line(h, p, l) ==
    write_line(<<<<"history">>, h, p, l.path,
                 to_string(l.offset), to_string(l.cursor), l.filename>>
               \o sort_strings(l.selection))

RECURSIVE history_lines(_, _, _)
history_lines(h, p, levels) ==
    IF levels = <<>> THEN <<>>
    ELSE history_line(h, p, Head(levels))
         \o history_lines(h, p, Tail(levels))

bool_token(b) == IF b THEN <<"1">> ELSE <<"0">>

\* save_config: the file is opened with fstream::trunc and written anew;
\* full-view, gravity and ext-helpers are at their defaults
save_config(s) ==
    write_line(<<<<"full-view">>, <<"0">>>>)
    \o write_line(<<<<"gravity">>, <<"0">>>>)
    \o write_line(<<<<"reverse-sort">>, bool_token(s.reverse_sort)>>)
    \o write_line(<<<<"show-hidden">>, bool_token(s.show_hidden)>>)
    \o write_line(<<<<"ext-helpers">>, <<"0">>>>)
    \o write_line(<<<<"sort-column">>, to_string(s.sort_column)>>)
    \o history_lines(hostname, ppid, s.levels)
    \o history_line(hostname, ppid, level_of(s))

\* ------------------------------------------------------------------------
\* Helper programs
\* ------------------------------------------------------------------------

\* No child: the terminal belongs to the program. `stops' counts how
\* often helpers have been stopped so far.
no_job(stops) ==
    [state |-> "none", sig |-> "", reported |-> FALSE, status |-> 0,
     fg |-> "sdn", stops |-> stops]

\* fork, then setpgid and tcsetpgrp in the child and setpgid in the
\* parent: the child runs in the foreground
forked(job) == [job EXCEPT !.state = "running", !.fg = "child"]

\* waitpid (child, &status, WUNTRACED) has reported a stop, and the body
\* of the loop has run: SIGCONT goes to the child after SIGTSTP only
wait_stopped(job) ==
    [job EXCEPT !.reported = TRUE,
                !.state = IF job.sig = "SIGTSTP" THEN "running" ELSE @]

\* waitpid has reported the end of the child: tcsetpgrp
wait_exited(job) == [job EXCEPT !.state = "none", !.fg = "sdn"]

\* ------------------------------------------------------------------------
\* State
\* ------------------------------------------------------------------------

VARIABLES
    g,          \* the fields of the global `g' that navigation and the
                \* line editor use
    env,        \* the filesystem, the working directory of the process,
                \* the inotify queue, the terminal height, the lines of
                \* the user's bindings file, the bytes of the
                \* configuration file, what main has written to its
                \* output, and the helper process with the foreground
                \* process group of the terminal
    pc,         \* where main is: "read" (read_key), "check" (the body of
                \* the event loop), "exit" (after the loop), "done"
                \* (main has returned), "waitpid" and "getline" (inside
                \* run_program)
    iter,       \* event-loop iterations so far
    fs_changes, \* filesystem changes so far
    last,       \* what the last step did (history variable)
    rt          \* ENTER-then-PARENT round trip in progress (history
                \* variable)

vars == <<g, env, pc, iter, fs_changes, last, rt>>

\* The program state and its environment as one record
world(gg, ee) ==
    [cwd |-> gg.cwd, start_dir |-> gg.start_dir, entries |-> gg.entries,
     selection |-> gg.selection, levels |-> gg.levels,
     offset |-> gg.offset, cursor |-> gg.cursor,
     reverse_sort |-> gg.reverse_sort, show_hidden |-> gg.show_hidden,
     sort_column |-> gg.sort_column,
     message |-> gg.message, message_ttl |-> gg.message_ttl,
     chosen |-> gg.chosen, no_chdir |-> gg.no_chdir,
     quitting |-> gg.quitting, ext_helper |-> gg.ext_helper,
     watch_wd |-> gg.watch_wd, out_of_date |-> gg.out_of_date,
     editor |-> gg.editor, editor_info |-> gg.editor_info,
     editor_line |-> gg.editor_line, editor_cursor |-> gg.editor_cursor,
     editor_inserting |-> gg.editor_inserting,
     editor_on_change |-> gg.editor_on_change, editor_on |-> gg.editor_on,
     fs |-> ee.fs, proc_cwd |-> ee.proc_cwd, events |-> ee.events,
     LINES |-> ee.LINES, bindings |-> ee.bindings, output |-> ee.output,
     config |-> ee.config, job |-> ee.job]

g_of(s) ==
    [cwd |-> s.cwd, start_dir |-> s.start_dir, entries |-> s.entries,
     selection |-> s.selection, levels |-> s.levels,
     offset |-> s.offset, cursor |-> s.cursor,
     reverse_sort |-> s.reverse_sort, show_hidden |-> s.show_hidden,
     sort_column |-> s.sort_column,
     message |-> s.message, message_ttl |-> s.message_ttl,
     chosen |-> s.chosen, no_chdir |-> s.no_chdir,
     quitting |-> s.quitting, ext_helper |-> s.ext_helper,
     watch_wd |-> s.watch_wd, out_of_date |-> s.out_of_date,
     editor |-> s.editor, editor_info |-> s.editor_info,
     editor_line |-> s.editor_line, editor_cursor |-> s.editor_cursor,
     editor_inserting |-> s.editor_inserting,
     editor_on_change |-> s.editor_on_change, editor_on |-> s.editor_on]

env_of(s) ==
    [fs |-> s.fs, proc_cwd |-> s.proc_cwd, events |-> s.events,
     LINES |-> s.LINES, bindings |-> s.bindings, output |-> s.output,
     config |-> s.config, job |-> s.job]

W == world(g, env)

\* ------------------------------------------------------------------------
\* Startup
\* ------------------------------------------------------------------------

NoStep == [cd |-> "none", path |-> <<>>, reloaded |-> FALSE]
NoTrip == [stage |-> 0]

PATH_MAX == 4096

\* What getenv returns for a variable that is not set
NULL == <<"(null)">>

\* getcwd: the path of the working directory, <<>> with ENOENT when the
\* directory has been removed
getcwd(dir) ==
    CASE dir = "R" -> <<"/">>
      [] dir = "A" -> <<"/", "a">>
      [] dir = "B" -> <<"/", "a", "/", "b">>
      [] dir = "BC" -> <<"/", "a", "/", "b", "c">>
      [] OTHER -> <<>>

\* realpath (pwd, nullptr): <<>> stands for a null pointer; a regular
\* file has a path that is no directory's
realpath(fs, dir, pwd) ==
    IF fs_resolve(fs, dir, pwd).err # "" THEN <<>>
    ELSE IF fs_resolve(fs, dir, pwd).node = "file"
         THEN pwd \o <<"(file)">>
         ELSE getcwd(fs_resolve(fs, dir, pwd).node)

\* initial_cwd, pwd being NULL when PWD is not set; the result NULL is a
\* std::string made from a null pointer
initial_cwd(fs, dir, pwd) ==
    IF getcwd(dir) = <<>> THEN pwd
    ELSE IF pwd = NULL THEN getcwd(dir)
    ELSE IF pwd = <<>> THEN getcwd(dir)
    ELSE IF pwd[1] # "/" \/ Len(pwd) >= PATH_MAX THEN getcwd(dir)
    ELSE IF \E i \in 1..Len(explode_path(pwd)) :
              explode_path(pwd)[i] \in {<<".">>, <<".", ".">>}
         THEN getcwd(dir)
    ELSE IF realpath(fs, dir, pwd) # <<>>
            /\ getcwd(dir) = realpath(fs, dir, pwd)
         THEN pwd
         ELSE getcwd(dir)

\* What initial_cwd returns and the directory the process is in: PWD when
\* it names the working directory (/, /a, /a/b, the link /s, the root
\* spelled //), and PWD as it is when getcwd fails
StartDirs ==
    { [cwd |-> <<"/">>, dir |-> "R"],
      [cwd |-> <<"/", "a">>, dir |-> "A"],
      [cwd |-> <<"/", "a", "/", "b">>, dir |-> "B"],
      [cwd |-> <<"/", "s">>, dir |-> "B"],
      [cwd |-> <<"/", "/">>, dir |-> "R"],
      [cwd |-> <<"x">>, dir |-> "D"] }

\* History lines of the config file: none, or what save_config wrote when
\* an earlier run ended in /a/b after descending from / through /a
SavedHistories ==
    { <<>>,
      << [offset |-> 0, cursor |-> 1, path |-> <<"/">>,
          filename |-> <<"a">>, selection |-> {}],
         [offset |-> 1, cursor |-> 3, path |-> <<"/", "a">>,
          filename |-> <<"g">>, selection |-> {<<"g">>, <<"x">>}],
         [offset |-> 0, cursor |-> 0, path |-> <<"/", "a", "/", "b">>,
          filename |-> DOTDOT, selection |-> {}] >> }

\* sort-column values of the config file
SavedSortColumns == {COL_FILENAME, COL_MTIME}

\* pop_levels (g.cwd) of main
startup_levels(s) == pop_levels(s, s.cwd)

\* The program is in state s, at `at' in main, and nothing has happened
Started(s, at) ==
    /\ g = g_of(s)
    /\ env = env_of(s)
    /\ pc = at
    /\ iter = 0
    /\ fs_changes = 0
    /\ last = NoStep
    /\ rt = NoTrip

\* main up to the event loop: load_config, initial_cwd, reload (false),
\* pop_levels (g.cwd)
startup(start, history, sort_column, reverse_sort, show_hidden, lines) ==
    LET s0 == [cwd |-> start.cwd, start_dir |-> start.cwd, entries |-> <<>>,
               selection |-> {}, levels |-> history,
               offset |-> 0, cursor |-> 0,
               reverse_sort |-> reverse_sort, show_hidden |-> show_hidden,
               sort_column |-> sort_column,
               message |-> <<>>, message_ttl |-> 0,
               chosen |-> <<>>, no_chdir |-> FALSE, quitting |-> FALSE,
               ext_helper |-> <<>>,
               watch_wd |-> "none", out_of_date |-> FALSE,
               editor |-> "", editor_info |-> <<>>, editor_line |-> <<>>,
               editor_cursor |-> 0, editor_inserting |-> FALSE,
               editor_on_change |-> "", editor_on |-> {},
               fs |-> [g |-> TRUE, unreadable |-> {}],
               proc_cwd |-> start.dir, events |-> <<>>, LINES |-> lines,
               bindings |-> {}, output |-> <<>>, config |-> <<>>,
               job |-> no_job(0)]
    IN  startup_levels(
          reload(IF start.dir = "D" THEN show_message(s0, <<"ENOENT">>)
                 ELSE s0,
                 FALSE))

\* The config file sets the sort column, the sort direction and the
\* history; it leaves show_hidden at its default
Init ==
    \E start \in StartDirs, history \in SavedHistories,
       sort_column \in SavedSortColumns, reverse_sort \in BOOLEAN,
       lines \in MinLINES..MaxLINES :
      Started(startup(start, history, sort_column, reverse_sort,
                      FALSE, lines), "read")

\* ------------------------------------------------------------------------
\* The event loop
\* ------------------------------------------------------------------------

\* The argument of the change_dir call that handle makes for an action,
\* <<"none">> when it makes none
cd_argument(s, action, arg) ==
    CASE action = "ENTER" /\ is_directory(at_cursor(s)) ->
           <<"cd", at_cursor(s).filename>>
      [] action = "CHDIR" -> <<"cd", untilde(arg)>>
      [] action = "PARENT" -> <<"cd", DOTDOT>>
      [] action = "GO_START" -> <<"cd", s.start_dir>>
      [] action = "GO_HOME" -> <<"cd", untilde(<<"~">>)>>
      [] OTHER -> <<"none">>

step_of(c, ok, action) ==
    [cd |-> IF c[1] # "cd" THEN "none" ELSE IF ok THEN "ok" ELSE "fail",
     path |-> IF c[1] = "cd" THEN c[2] ELSE <<>>,
     reloaded |-> ok \/ action \in {"RELOAD", "SHOW_HIDDEN"}]

cd_succeeds(s, c) ==
    c[1] = "cd" /\ change_dir_target(s, c[2]).message = <<>>

cd_step(s, c, action) == step_of(c, cd_succeeds(s, c), action)

step_record(s, action, arg) == cd_step(s, cd_argument(s, action, arg), action)

nav_of(s) ==
    [cwd |-> s.cwd, cursor |-> s.cursor, offset |-> s.offset,
     selection |-> s.selection, levels |-> s.levels]

trip_record(s, action, arg) ==
    LET rec == step_record(s, action, arg)
    IN  IF /\ action = "ENTER"
           /\ rec.cd = "ok"
           /\ at_cursor(s).filename # DOTDOT
        THEN [stage |-> 1, d |-> at_cursor(s).filename, saved |-> nav_of(s)]
        ELSE IF action = "PARENT" /\ rec.cd = "ok" /\ rt.stage = 1
             THEN [rt EXCEPT !.stage = 2]
             ELSE NoTrip

\* One key handled by handle
\* handle has returned !g.quitting and left the state s
Handled(s) ==
    /\ g' = g_of(s)
    /\ env' = env_of(s)
    /\ pc' = IF s.quitting THEN "exit" ELSE "check"

Key(action, arg) ==
    /\ iter < MaxIter
    /\ Handled(handle(W, action, arg))
    /\ last' = step_record(W, action, arg)
    /\ rt' = trip_record(W, action, arg)
    /\ UNCHANGED <<iter, fs_changes>>

\* Lines the user confirms in the chdir prompt
ChdirLines ==
    { <<"/">>, <<"/", "/">>, <<"/", "a", "/", "b">>, <<"b", "c">>,
      <<"/", "s">>, <<"g">>, <<"x">>, <<"g", "/", ".", ".">>,
      <<"x", "/", ".", ".">>, <<".", ".", "/", ".", ".">>, <<"a">> }

\* Lines the user confirms in the select and deselect prompts
SelectLines == { <<"*">>, <<"b", "*">>, <<"g">>, <<>> }

\* read_key has returned the key bound to an action
KeyChoose == pc = "read" /\ Key("CHOOSE", <<>>)
KeyChooseFull == pc = "read" /\ Key("CHOOSE_FULL", <<>>)
KeyEnter == pc = "read" /\ Key("ENTER", <<>>)
KeyQuit == pc = "read" /\ Key("QUIT", <<>>)
KeyQuitNoChdir == pc = "read" /\ Key("QUIT_NO_CHDIR", <<>>)
KeySortLeft == pc = "read" /\ Key("SORT_LEFT", <<>>)
KeySortRight == pc = "read" /\ Key("SORT_RIGHT", <<>>)
KeySelect ==
    pc = "read" /\ \E line \in SelectLines : Key("SELECT", line)
KeyDeselect ==
    pc = "read" /\ \E line \in SelectLines : Key("DESELECT", line)
KeySelectToggle == pc = "read" /\ Key("SELECT_TOGGLE", <<>>)
KeySelectAbort == pc = "read" /\ Key("SELECT_ABORT", <<>>)
KeyUp == pc = "read" /\ Key("UP", <<>>)
KeyDown == pc = "read" /\ Key("DOWN", <<>>)
KeyTop == pc = "read" /\ Key("TOP", <<>>)
KeyBottom == pc = "read" /\ Key("BOTTOM", <<>>)
KeyHigh == pc = "read" /\ Key("HIGH", <<>>)
KeyMiddle == pc = "read" /\ Key("MIDDLE", <<>>)
KeyLow == pc = "read" /\ Key("LOW", <<>>)
KeyPagePrevious == pc = "read" /\ Key("PAGE_PREVIOUS", <<>>)
KeyPageNext == pc = "read" /\ Key("PAGE_NEXT", <<>>)
KeyScrollDown == pc = "read" /\ Key("SCROLL_DOWN", <<>>)
KeyScrollUp == pc = "read" /\ Key("SCROLL_UP", <<>>)
KeyCenter == pc = "read" /\ Key("CENTER", <<>>)
KeyChdir ==
    pc = "read" /\ \E line \in ChdirLines : Key("CHDIR", line)
KeyParent == pc = "read" /\ Key("PARENT", <<>>)
KeyGoStart == pc = "read" /\ Key("GO_START", <<>>)
KeyGoHome == pc = "read" /\ Key("GO_HOME", <<>>)
KeyReverseSort == pc = "read" /\ Key("REVERSE_SORT", <<>>)
KeyShowHidden == pc = "read" /\ Key("SHOW_HIDDEN", <<>>)
KeyReload == pc = "read" /\ Key("RELOAD", <<>>)

\* KEY_RESIZE: curses has set LINES, handle only fixes the viewport
KeyResize ==
    /\ pc = "read"
    /\ iter < MaxIter
    /\ \E lines \in (MinLINES..MaxLINES) \ {env.LINES} :
         Handled(handle([W EXCEPT !.LINES = lines], "NONE", <<>>))
    /\ last' = NoStep
    /\ rt' = NoTrip
    /\ UNCHANGED <<iter, fs_changes>>

\* read_key times out: the loop body runs without handle
Timeout ==
    /\ pc = "read"
    /\ iter < MaxIter
    /\ pc' = "check"
    /\ last' = NoStep
    /\ rt' = NoTrip
    /\ UNCHANGED <<g, env, iter, fs_changes>>

\* A countdown that leaves the message on the screen
message_countdown_kept(s) ==
    IF s.message_ttl # 0 THEN [s EXCEPT !.message_ttl = @ - 1] ELSE s

\* The body of the event loop: watch_check, then the message countdown
message_countdown(s) ==
    IF s.message_ttl # 0
    THEN IF s.message_ttl - 1 = 0
         THEN [s EXCEPT !.message_ttl = 0, !.message = <<>>]
         ELSE [s EXCEPT !.message_ttl = @ - 1]
    ELSE s

loop_body(s) == message_countdown(watch_check(s))

\* The loop body has left the state s
Looped(s) == g' = g_of(s) /\ env' = env_of(s)

Tick ==
    /\ pc = "check"
    /\ Looped(loop_body(W))
    /\ pc' = "read"
    /\ iter' = iter + 1
    /\ last' = NoStep
    /\ UNCHANGED <<fs_changes, rt>>

\* IN_CREATE, IN_DELETE or IN_ATTRIB queued for the watch, if it is on the
\* directory `d' that changed
notify(ee, watch_wd, d) ==
    IF watch_wd = d THEN [ee EXCEPT !.events = Append(@, TRUE)] ELSE ee

\* Somebody else creates or deletes /a/g
FsToggleFile ==
    /\ pc # "exit"
    /\ fs_changes < MaxFsChanges
    /\ env' = notify([env EXCEPT !.fs.g = ~@], g.watch_wd, "A")
    /\ fs_changes' = fs_changes + 1
    /\ rt' = NoTrip
    /\ UNCHANGED <<g, pc, iter, last>>

\* Somebody else revokes or grants the read permission of a directory
FsToggleReadable ==
    /\ pc # "exit"
    /\ fs_changes < MaxFsChanges
    /\ \E d \in LockableDirs :
         env' = notify([env EXCEPT !.fs.unreadable =
                           IF d \in @ THEN @ \ {d} ELSE @ \cup {d}],
                       g.watch_wd, d)
    /\ fs_changes' = fs_changes + 1
    /\ rt' = NoTrip
    /\ UNCHANGED <<g, pc, iter, last>>

Next ==
    \/ KeyChoose \/ KeyChooseFull \/ KeyEnter \/ KeyQuit \/ KeyQuitNoChdir
    \/ KeySortLeft \/ KeySortRight
    \/ KeySelect \/ KeyDeselect \/ KeySelectToggle \/ KeySelectAbort
    \/ KeyUp \/ KeyDown \/ KeyTop \/ KeyBottom
    \/ KeyHigh \/ KeyMiddle \/ KeyLow
    \/ KeyPagePrevious \/ KeyPageNext
    \/ KeyScrollDown \/ KeyScrollUp \/ KeyCenter
    \/ KeyChdir \/ KeyParent \/ KeyGoStart \/ KeyGoHome
    \/ KeyReverseSort \/ KeyShowHidden \/ KeyReload
    \/ KeyResize \/ Timeout \/ Tick
    \/ FsToggleFile \/ FsToggleReadable

Spec == Init /\ [][Next]_vars

\* ------------------------------------------------------------------------
\* fix_cursor_and_offset as a function of (cursor, offset, len, LINES)
\* ------------------------------------------------------------------------

RECURSIVE fix_name(_)
fix_name(i) == IF i = 0 THEN <<>> ELSE <<"x">> \o fix_name(i - 1)

RECURSIVE fix_listing(_)
fix_listing(len) ==
    IF len = 0 THEN <<>>
    ELSE Append(fix_listing(len - 1),
                [invalid_entry EXCEPT !.filename = fix_name(len),
                                      !.mode = ModeReg])

InitFix ==
    \E cursor \in -MaxPrior..MaxPrior, offset \in -MaxPrior..MaxPrior,
       len \in 0..MaxLen, lines \in 0..MaxFixLINES :
      Started([startup([cwd |-> <<"/">>, dir |-> "R"], <<>>,
                       COL_FILENAME, FALSE, FALSE, lines)
               EXCEPT !.entries = fix_listing(len),
                      !.cursor = cursor, !.offset = offset], "fix")

FixStep ==
    /\ pc = "fix"
    /\ g' = g_of(fix_cursor_and_offset(W))
    /\ pc' = "fixed"
    /\ UNCHANGED <<env, iter, fs_changes, last, rt>>

NextFix == FixStep

SpecFix == InitFix /\ [][NextFix]_vars

\* C1 as stated: after fix_cursor_and_offset, for every listing length,
\* every terminal height (visible_lines may be 0) and every prior cursor
\* and offset, a non-empty listing has 0 <= offset <= cursor <
\* offset + visible_lines, and an empty listing has cursor = offset = 0.
C1_AsStated ==
    pc = "fixed" =>
        /\ Len(g.entries) > 0 =>
             /\ 0 <= g.offset
             /\ g.offset <= g.cursor
             /\ g.cursor < g.offset + visible_lines(env.LINES)
        /\ Len(g.entries) = 0 => (g.cursor = 0 /\ g.offset = 0)

\* C1 amended: the same for every terminal height that leaves at least
\* one visible line; with no visible line the cursor is still clamped into
\* the listing and the offset ends one past the cursor.
C1_FixedViewport ==
    pc = "fixed" =>
        /\ visible_lines(env.LINES) >= 1 =>
             /\ Len(g.entries) > 0 =>
                  /\ 0 <= g.offset
                  /\ g.offset <= g.cursor
                  /\ g.cursor < g.offset + visible_lines(env.LINES)
             /\ Len(g.entries) = 0 => (g.cursor = 0 /\ g.offset = 0)
        /\ visible_lines(env.LINES) = 0 =>
             /\ 0 <= g.cursor
             /\ g.cursor <= Max(Len(g.entries) - 1, 0)
             /\ g.offset = g.cursor + 1

\* The cursor was below the window and has pulled the offset up
C1_Witness ==
    /\ pc = "fixed"
    /\ Len(g.entries) = 4
    /\ visible_lines(env.LINES) = 2
    /\ g.cursor = 3
    /\ g.offset = 2

\* ------------------------------------------------------------------------
\* The sort order over listings of any content
\* ------------------------------------------------------------------------

\* Entries a directory may hold: `..', two directories, a link to a
\* directory, two regular files and a link to a regular file, with ties in
\* every column
SortUniverse ==
    { dotdot_entry,
      [filename |-> <<"a">>, mode |-> ModeDir, tmode |-> 0,
       uid |-> 0, gid |-> 1, size |-> 5, mtime |-> 1],
      [filename |-> <<"b">>, mode |-> ModeDir, tmode |-> 0,
       uid |-> 1, gid |-> 0, size |-> 5, mtime |-> 2],
      [filename |-> <<"s">>, mode |-> ModeLnk, tmode |-> ModeDir,
       uid |-> 0, gid |-> 0, size |-> 1, mtime |-> 1],
      [filename |-> <<"g">>, mode |-> ModeReg, tmode |-> 0,
       uid |-> 1, gid |-> 1, size |-> 7, mtime |-> 2],
      [filename |-> <<"x">>, mode |-> ModeReg, tmode |-> 0,
       uid |-> 0, gid |-> 1, size |-> 7, mtime |-> 1],
      [filename |-> <<"c">>, mode |-> ModeLnk, tmode |-> ModeReg,
       uid |-> 0, gid |-> 0, size |-> 1, mtime |-> 3] }

\* The state reload leaves in /a when the directory holds the entries S
InitSort ==
    \E S \in SUBSET SortUniverse, sort_column \in 0..(COLUMNS - 1),
       reverse_sort \in BOOLEAN :
      Started([startup([cwd |-> <<"/", "a">>, dir |-> "A"], <<>>,
                       sort_column, reverse_sort, FALSE, MaxLINES)
               EXCEPT !.entries =
                   sort_entries(set_to_seq(S), sort_column, reverse_sort)],
              "read")

NextSort ==
    \/ KeySortLeft \/ KeySortRight \/ KeyReverseSort
    \/ KeyReload \/ KeyShowHidden \/ Tick

SpecSort == InitSort /\ [][NextSort]_vars

\* The partition operator< puts an entry in
partition_of(e) ==
    IF e.filename = DOTDOT THEN 0 ELSE IF is_directory(e) THEN 1 ELSE 2

RECURSIVE reverse_seq(_)
reverse_seq(q) ==
    IF q = <<>> THEN <<>> ELSE Append(reverse_seq(Tail(q)), Head(q))

in_partition_0(e) == partition_of(e) = 0
in_partition_1(e) == partition_of(e) = 1
in_partition_2(e) == partition_of(e) = 2

\* A listing with the order inside every partition reversed
reverse_partitions(es) ==
    reverse_seq(SelectSeq(es, in_partition_0))
    \o reverse_seq(SelectSeq(es, in_partition_1))
    \o reverse_seq(SelectSeq(es, in_partition_2))

\* C9: in every listing that a sort has produced `..', if present, is at
\* index 0, and no non-directory entry precedes a directory-like entry,
\* whatever the sort column and the reverse-sort setting.
C9_DirectoriesFirst ==
    /\ \A i \in 1..Len(g.entries) :
         g.entries[i].filename = DOTDOT => i = 1
    /\ \A i, j \in 1..Len(g.entries) :
         (i < j /\ is_directory(g.entries[j])) => is_directory(g.entries[i])

\* Sorted by size in reverse after a key, with `..', a link to a directory
\* and a larger regular file in the listing
C9_Witness ==
    /\ pc = "check"
    /\ g.reverse_sort
    /\ g.sort_column = COL_SIZE
    /\ Len(g.entries) > 0
    /\ g.entries[1].filename = DOTDOT
    /\ \E i, j \in 1..Len(g.entries) :
         /\ i < j
         /\ g.entries[i].tmode = ModeDir
         /\ g.entries[j].mode = ModeReg
         /\ g.entries[j].size > g.entries[i].size

\* C10: REVERSE_SORT reverses the order inside each partition (`..', the
\* directories, the rest) and nothing else; sorting the result again
\* leaves it as it is; and a second REVERSE_SORT gives back the listing
\* from before the first.
C10_ReverseWithinPartitions ==
    [][ g'.reverse_sort # g.reverse_sort =>
          /\ g'.entries = reverse_partitions(g.entries)
          /\ resort(world(g', env'), <<>>).entries = g'.entries
          /\ handle(world(g', env'), "REVERSE_SORT", <<>>).entries
               = g.entries ]_vars

\* REVERSE_SORT has just changed the order of a listing whose directories
\* tie in the sort column
C10_Witness ==
    /\ pc = "check"
    /\ g.reverse_sort
    /\ g.sort_column = COL_SIZE
    /\ Len(g.entries) = 7
    /\ g.entries[2].filename = <<"b">>
    /\ g.entries[3].filename = <<"a">>
    /\ g.entries[4].filename = <<"s">>

\* ------------------------------------------------------------------------
\* The history of directories
\* ------------------------------------------------------------------------

nonempty(c) == c # <<>>

\* The names an absolute path leads through from the root
path_dirs(path) == SelectSeq(explode_path(path), nonempty)

\* The directory at `path' lies somewhere below the one at `of'
is_descendant(path, of) ==
    /\ has_prefix(<<"/">>, path)
    /\ has_prefix(<<"/">>, of)
    /\ Len(path_dirs(of)) < Len(path_dirs(path))
    /\ SubSeq(path_dirs(path), 1, Len(path_dirs(of))) = path_dirs(of)

\* The entry names of a listing
filenames(entries) == {entries[i].filename : i \in 1..Len(entries)}

\* This step is a key whose change_dir call ended as `result' says
cd_step_is(result) == pc = "read" /\ last'.cd = result

\* C2: a successful change_dir from P to a descendant of P appends to the
\* history stack exactly one level, holding P and the offset, the cursor,
\* the filename under the cursor and the selection from before the change;
\* the new view has cursor = offset = 0 and an empty selection.
C2_DescentPushesLevel ==
    [][ (cd_step_is("ok") /\ is_descendant(g'.cwd, g.cwd)) =>
          /\ g'.levels = Append(g.levels, level_of(W))
          /\ g'.cursor = 0
          /\ g'.offset = 0
          /\ g'.selection = {} ]_vars

\* C3: when ENTER on a directory d other than `..' has succeeded and
\* PARENT follows, with no filesystem change in between, cwd, cursor,
\* offset, selection and the history stack are what they were before the
\* ENTER, and the cursor is on d.
C3_RoundTrip ==
    rt.stage = 2 =>
        /\ nav_of(W) = rt.saved
        /\ at_cursor(W).filename = rt.d

\* C4: after change_dir ("..") has succeeded from /P/b, the cursor is on
\* the entry named exactly b whenever the listing of /P has one.
C4_CursorOnChild ==
    [][ (/\ cd_step_is("ok")
         /\ last'.path = DOTDOT
         /\ g'.cwd # g.cwd
         /\ g.cwd = absolutize(g'.cwd, relativize(g'.cwd, g.cwd))
         /\ relativize(g'.cwd, g.cwd) \in filenames(g'.entries)) =>
          at_cursor(world(g', env')).filename = relativize(g'.cwd, g.cwd)
      ]_vars

is_proper_ancestor_level(l) == is_descendant(g'.cwd, l.path)

\* C5: after a successful change_dir to a path that is not a descendant
\* of the old cwd, every level left on the history stack has a path that
\* is a proper ancestor of the new cwd, and the levels whose path is one
\* are all still there, unchanged and in their order.
C5_NonDescentPopsLevels ==
    [][ (/\ cd_step_is("ok")
         /\ g'.cwd # g.cwd
         /\ ~is_descendant(g'.cwd, g.cwd)) =>
          g'.levels = SelectSeq(g.levels, is_proper_ancestor_level) ]_vars

\* C6: when change_dir fails, it changes nothing but the transient
\* message, which it sets to the error text.
C6_FailureKeepsState ==
    [][ cd_step_is("fail") =>
          /\ change_dir(W, last'.path) =
               [W EXCEPT !.message = g'.message,
                         !.message_ttl = MESSAGE_TTL]
          /\ g'.message # <<>>
          /\ g'.cwd = g.cwd /\ g'.entries = g.entries
          /\ g'.selection = g.selection /\ g'.levels = g.levels
          /\ g'.out_of_date = g.out_of_date
          /\ env' = env ]_vars

\* A `..' probe has found a regular file while entries were selected
C6_Witness ==
    /\ last.cd = "fail"
    /\ g.message = <<"g", ": ", "ENOTDIR">>
    /\ g.message_ttl = MESSAGE_TTL
    /\ g.selection # {}

\* C7: once set, the stale flag stays set through every poll that sees no
\* event and through every key that does not reload.
C7_StaleFlagStays ==
    [][ (/\ g.out_of_date
         /\ \/ pc = "check" /\ env.events = <<>>
            \/ pc = "read" /\ ~last'.reloaded) =>
          g'.out_of_date ]_vars

\* C8: every selected filename is the filename of an entry of the
\* listing.
C8_SelectionListed ==
    g.selection \subseteq filenames(g.entries)

\* ------------------------------------------------------------------------
\* reload as an operation of its own
\* ------------------------------------------------------------------------

\* The program just before a call of reload: it has listed its directory
\* with hidden files shown or not, the user has moved the cursor, the
\* filesystem has changed since, and SHOW_HIDDEN may have been toggled
reload_ready(s, cursor, fs, show_hidden) ==
    [fix_cursor_and_offset([s EXCEPT !.cursor = cursor])
       EXCEPT !.fs = fs, !.show_hidden = show_hidden]

InitReload ==
    \E start \in StartDirs, sort_column \in SavedSortColumns,
       reverse_sort \in BOOLEAN, listed_hidden \in BOOLEAN,
       show_hidden \in BOOLEAN, cursor \in 0..MaxLen, fs \in FsStates :
      Started(reload_ready(startup(start, <<>>, sort_column, reverse_sort,
                                   listed_hidden, MaxLINES),
                           cursor, fs, show_hidden),
              "reload")

\* What a call of reload starts from (history)
reload_call(s, keep_anchor) ==
    [keep_anchor |-> keep_anchor, anchor |-> at_cursor(s).filename,
     cursor |-> s.cursor, offset |-> s.offset,
     failed |-> fs_opendir_fails(s.fs, s.proc_cwd)]

Reloaded(keep_anchor) ==
    /\ Looped(reload(W, keep_anchor))
    /\ pc' = "reloaded"
    /\ last' = reload_call(W, keep_anchor)
    /\ UNCHANGED <<iter, fs_changes, rt>>

ReloadKeep == pc = "reload" /\ Reloaded(TRUE)
ReloadFresh == pc = "reload" /\ Reloaded(FALSE)

NextReload == ReloadKeep \/ ReloadFresh

SpecReload == InitReload /\ [][NextReload]_vars

\* C11 as stated: after reload (keep_anchor), with keep_anchor set the
\* cursor is on the entry that has the filename it was on before if the
\* new listing still has it, and else keeps its index clamped into the
\* listing; with keep_anchor not set the cursor is 0.
C11_AsStated ==
    pc = "reloaded" =>
        IF ~last.keep_anchor THEN g.cursor = 0
        ELSE IF last.anchor \in filenames(g.entries)
             THEN at_cursor(W).filename = last.anchor
             ELSE g.cursor = clamp_index(last.cursor, Len(g.entries))

\* C11 amended: after reload (keep_anchor), with keep_anchor set and the
\* filename that was under the cursor still listed, the cursor is on that
\* entry; in every other case, keep_anchor not set included, the cursor
\* keeps its index clamped into the listing.
C11_AnchorOrClamp ==
    pc = "reloaded" =>
        IF last.keep_anchor /\ last.anchor \in filenames(g.entries)
        THEN at_cursor(W).filename = last.anchor
        ELSE g.cursor = clamp_index(last.cursor, Len(g.entries))

\* The anchor has moved to another index and the cursor has followed it
C11_Witness ==
    /\ pc = "reloaded"
    /\ last.keep_anchor
    /\ last.anchor = <<"x">>
    /\ at_cursor(W).filename = <<"x">>
    /\ g.cursor # last.cursor

C13_Readfail ==
    (pc = "reloaded" /\ last.failed) =>
        /\ g.entries = IF env.proc_cwd # "R" THEN <<dotdot_entry>> ELSE <<>>
        /\ g.message = <<"EACCES">>
        /\ g.message_ttl = MESSAGE_TTL
        /\ g.cursor = 0
        /\ g.offset = 0

\* ------------------------------------------------------------------------
\* lookup and match as operations of their own
\* ------------------------------------------------------------------------

\* Names a directory may hold; two of them are not valid in the encoding
\* of the locale
SearchNames ==
    { DOTDOT, <<"a">>, <<"a", "b">>, <<"b">>, <<"b", "a">>,
      <<"0xFF", "a">>, <<"0xFF", "b">> }

\* Needles: what pop_levels passes to lookup (to_wide of a name), and what
\* the user types in the search prompt
SearchNeedles ==
    { <<>>, <<"a">>, <<"a", "b">>, <<"a", "b", "c">>, <<"b">>, <<"x">>,
      <<"*">>, <<"*", "b">>, <<".">>, to_wide(<<"0xFF", "b">>) }

search_entry(name) ==
    [invalid_entry EXCEPT !.filename = name,
                          !.mode = IF name = DOTDOT THEN ModeDir ELSE ModeReg]

search_listing(S) ==
    sort_entries(set_to_seq({search_entry(n) : n \in S}),
                 COL_FILENAME, FALSE)

\* The program in a directory that holds the names S, the cursor moved
InitSearch ==
    \E S \in {S \in SUBSET SearchNames : Cardinality(S) <= MaxLen},
       cursor \in 0..MaxLen :
      Started(fix_cursor_and_offset(
                [startup([cwd |-> <<"/", "a">>, dir |-> "A"], <<>>,
                         COL_FILENAME, FALSE, FALSE, MaxLINES)
                 EXCEPT !.entries = search_listing(S), !.cursor = cursor]),
              "search")

\* What a call of lookup or match starts from and returns (history)
search_call(op, s, needle, push, matches) ==
    [op |-> op, needle |-> needle, push |-> push, cursor |-> s.cursor,
     matches |-> matches]

Searched(s) ==
    /\ g' = g_of(s)
    /\ pc' = "searched"
    /\ UNCHANGED <<env, iter, fs_changes, rt>>

LookupStep ==
    /\ pc = "search"
    /\ \E needle \in SearchNeedles :
         /\ Searched(lookup(W, needle))
         /\ last' = search_call("lookup", W, needle, 0, 0)

\* match reads g.entries[g.cursor]: the listing is not empty
MatchStep ==
    /\ pc = "search"
    /\ Len(g.entries) > 0
    /\ \E needle \in SearchNeedles, push \in {-1, 0, 1} :
         /\ Searched([W EXCEPT !.cursor = match(W, needle, push).best])
         /\ last' = search_call("match", W, needle, push,
                                match(W, needle, push).matches)

NextSearch == LookupStep \/ MatchStep

SpecSearch == InitSearch /\ [][NextSearch]_vars

\* The characters that a filename, as wide characters, and a needle have
\* in common at their start
RECURSIVE shared_prefix(_, _)
shared_prefix(name, needle) ==
    IF name = <<>> \/ needle = <<>> \/ Head(name) # Head(needle) THEN 0
    ELSE 1 + shared_prefix(Tail(name), Tail(needle))

\* The 0-based index in `among' that comes first from `from' on, going
\* round a listing of length len in direction dir
nearest(among, from, len, dir) ==
    CHOOSE i \in among :
        \A j \in among : ((i - from) * dir) % len <= ((j - from) * dir) % len

\* C14: lookup (needle) puts the cursor on the entry whose filename shares
\* the longest prefix with the needle, the first such entry met from the
\* cursor on going round the listing forward; when no filename shares a
\* non-empty prefix with the needle the cursor stays.  A filename is
\* compared as the wide string that to_wide makes of it.
C14_LongestPrefix ==
    (pc = "searched" /\ last.op = "lookup") =>
        LET len == Len(g.entries)
            n(i) == shared_prefix(to_wide(g.entries[i + 1].filename),
                                  last.needle)
            longest == {i \in 0..(len - 1) :
                          \A j \in 0..(len - 1) : n(j) <= n(i)}
        IN  IF len = 0 \/ \A i \in 0..(len - 1) : n(i) = 0
            THEN g.cursor = last.cursor
            ELSE g.cursor = nearest(longest, last.cursor, len, 1)

\* Two entries share the longest prefix and the scan has gone round the
\* end of the listing to the first of them
C14_Witness ==
    /\ pc = "searched"
    /\ last.op = "lookup"
    /\ last.needle = <<"a">>
    /\ g.cursor < last.cursor
    /\ at_cursor(W).filename = <<"a">>
    /\ <<"a", "b">> \in filenames(g.entries)

\* The glob `needle*' matches the filename
glob_matches(needle, name) == fnmatch(to_mb(needle) \o <<"*">>, name)

\* C15: match (needle, push) on a listing that is not empty returns the
\* number of entries whose filename matches the glob `needle*'; without
\* a match the cursor stays; with push = 0 the cursor stays on a matching
\* entry and else goes to the nearest match forward; with push = 1 or -1
\* it goes to the nearest other match after or before the cursor and
\* stays only when no other entry matches.
C15_Match ==
    (pc = "searched" /\ last.op = "match") =>
        LET len == Len(g.entries)
            M == {i \in 0..(len - 1) :
                    glob_matches(last.needle, g.entries[i + 1].filename)}
            others == M \ {last.cursor}
        IN  /\ last.matches = Cardinality(M)
            /\ g.cursor =
                 IF last.push = 0
                 THEN IF M = {} \/ last.cursor \in M THEN last.cursor
                      ELSE nearest(M, last.cursor, len, 1)
                 ELSE IF others = {} THEN last.cursor
                      ELSE nearest(others, last.cursor, len, last.push)

\* `next' in the search prompt has gone round the end of the listing to
\* another match
C15_Witness ==
    /\ pc = "searched"
    /\ last.op = "match"
    /\ last.push = 1
    /\ last.matches = 2
    /\ g.cursor < last.cursor
    /\ glob_matches(last.needle, g.entries[last.cursor + 1].filename)

\* ------------------------------------------------------------------------
\* The prompts, key by key
\* ------------------------------------------------------------------------

\* The keys the user presses
EditKeys ==
    {"a", "*", " ", "q", "c", "/", "+", "-", "e", "U+0301"}
    \cup AltKeys \cup SymKeys \cup ControlKeys

\* The user's bindings file: none, or one that binds C-a in the search
\* context to an action the search prompt has no handler for
EditBindings == { {}, {<<"search", "C-a", "QUIT">>} }

\* The handlers and hooks that handle_editor calls for the key, in order
\* (history)
editor_calls(s, c) ==
    IF s.editor = "" THEN <<>>
    ELSE IF editor_action(s, c) = "INPUT_CONFIRM"
         THEN IF "INPUT_CONFIRM" \in s.editor_on
              THEN <<"INPUT_CONFIRM">> ELSE <<>>
    ELSE IF editor_action(s, c) = "INPUT_ABORT" THEN <<>>
    ELSE (IF /\ editor_action(s, c) \notin
                  {"INPUT_BEGINNING", "INPUT_END", "INPUT_BACKWARD",
                   "INPUT_FORWARD", "INPUT_B_DELETE", "INPUT_DELETE",
                   "INPUT_B_KILL_WORD", "INPUT_B_KILL_LINE",
                   "INPUT_KILL_LINE", "INPUT_QUOTED_INSERT"}
             /\ editor_action(s, c) \in s.editor_on
          THEN <<editor_action(s, c)>> ELSE <<>>)
         \o (IF /\ s.editor_on_change # ""
                /\ editor_case([s EXCEPT !.editor_inserting = FALSE],
                               editor_action(s, c), c).editor_line
                   # s.editor_line
             THEN <<"on_change">> ELSE <<>>)

\* What handle starts from for a key (history)
key_record(s, c) ==
    [key |-> c, editor |-> s.editor, inserting |-> s.editor_inserting,
     action |-> IF s.editor # "" THEN editor_action(s, c)
                ELSE g_normal_actions(s.bindings, c),
     calls |-> editor_calls(s, c),
     line |-> s.editor_line, cursor |-> s.editor_cursor,
     on |-> s.editor_on, nav |-> nav_of(s), message |-> s.message]

InitEdit ==
    \E bindings \in EditBindings :
      Started([startup([cwd |-> <<"/", "a">>, dir |-> "A"], <<>>,
                       COL_FILENAME, FALSE, FALSE, MaxLINES)
               EXCEPT !.bindings = bindings], "read")

EditKey(c) ==
    /\ iter < MaxKeys
    /\ Handled(handle_key(W, c))
    /\ last' = key_record(W, c)
    /\ UNCHANGED <<iter, fs_changes, rt>>

\* read_key has returned a key while no prompt is open
NormalKey == pc = "read" /\ g.editor = "" /\ \E c \in EditKeys : EditKey(c)

\* read_key has returned a key while a prompt is open
EditorKey == pc = "read" /\ g.editor # "" /\ \E c \in EditKeys : EditKey(c)

NextEdit == NormalKey \/ EditorKey \/ Tick

SpecEdit == InitEdit /\ [][NextEdit]_vars

\* A key has just been handled while a prompt was open
prompt_key == pc \in {"check", "exit"} /\ last.editor # ""

\* The prompt is gone: the state is Normal
torn_down ==
    /\ g.editor = ""
    /\ g.editor_info = <<>>
    /\ g.editor_line = <<>>
    /\ g.editor_cursor = 0
    /\ ~g.editor_inserting
    /\ g.editor_on_change = ""
    /\ g.editor_on = {}

\* C16: in every prompt INPUT_CONFIRM calls the prompt's confirm handler
\* exactly once and then tears the prompt down whatever the handler did;
\* INPUT_ABORT tears it down and calls neither the confirm handler nor
\* the change hook (nothing but the prompt changes); after either the
\* state is Normal.
C16_ConfirmAbort ==
    prompt_key =>
        /\ last.action = "INPUT_CONFIRM" =>
             (last.calls = <<"INPUT_CONFIRM">> /\ torn_down)
        /\ last.action = "INPUT_ABORT" =>
             /\ last.calls = <<>>
             /\ torn_down
             /\ nav_of(W) = last.nav
             /\ g.message = last.message

\* The chdir prompt has been confirmed on a line that chdir () refuses
C16_Witness ==
    /\ prompt_key
    /\ last.editor = "chdir"
    /\ last.action = "INPUT_CONFIRM"
    /\ last.line = <<"q">>
    /\ g.message = <<"ENOENT">>
    /\ torn_down

\* C17: a key that arrives while a prompt is open is handled by the line
\* editor only: the prompt stays the same prompt or is closed, the
\* program quits only through a handler of the prompt itself, a key bound
\* to a Normal action leaves the directory, the selection and the sort
\* order to the prompt's handlers, and the key that confirms or aborts is
\* not acted on a second time.
C17_EditorEatsKey ==
    prompt_key =>
        /\ g.editor \in {"", last.editor}
        /\ g.quitting => (last.editor = "search" /\ last.calls # <<>>)
        /\ last.calls = <<>> =>
             (nav_of(W) = last.nav /\ g.message = last.message)
        /\ (last.editor \in {"select", "deselect"}
            /\ last.action = "INPUT_CONFIRM") =>
             /\ g.cwd = last.nav.cwd
             /\ g.cursor = last.nav.cursor
             /\ g.levels = last.nav.levels

\* `q' typed in the chdir prompt is text
C17_Witness ==
    /\ prompt_key
    /\ last.editor = "chdir"
    /\ last.key = "q"
    /\ g.editor = "chdir"
    /\ g.editor_line = <<"q">>
    /\ ~g.quitting

\* iswprint
printable(c) == ~alt_or_sym(c) /\ c \notin ControlKeys

\* The key has been inserted at the cursor of the line
key_inserted ==
    /\ g.editor = last.editor
    /\ g.editor_line = insert_at(last.line, last.cursor, last.key)
    /\ g.editor_cursor = last.cursor + 1

\* C18: for a key in a prompt (outside quoted insert) the binding of the
\* prompt's own context table counts only when the prompt has a handler
\* for the bound action; else the input table resolves the key; a key
\* that neither resolves is inserted when it is printable, with the
\* change hook called, and no other key is inserted.
C18_Resolution ==
    (prompt_key /\ ~last.inserting) =>
        LET own == IF last.editor = "search"
                   THEN g_search_actions(env.bindings, last.key)
                   ELSE "NONE"
            resolved == IF own # "NONE" /\ own \in last.on THEN own
                        ELSE g_input_actions(env.bindings, last.key)
        IN  /\ last.action = resolved
            /\ (resolved = "NONE" /\ printable(last.key)) =>
                 (key_inserted /\ "on_change" \in
                      {last.calls[i] : i \in 1..Len(last.calls)}
                      \cup (IF g.editor_on_change = ""
                            THEN {"on_change"} ELSE {}))
            /\ ~(resolved = "NONE" /\ printable(last.key)) =>
                 ~key_inserted

\* C19: the key that follows INPUT_QUOTED_INSERT, whatever it is, is
\* inserted at the cursor as one code point and runs no handler of the
\* prompt; the prompt stays open and decodes the next key as usual.
C19_QuotedInsert ==
    (prompt_key /\ last.inserting) =>
        /\ key_inserted
        /\ last.action = "NONE"
        /\ \A i \in 1..Len(last.calls) : last.calls[i] = "on_change"
        /\ ~g.editor_inserting
        /\ ~g.quitting

\* ------------------------------------------------------------------------
\* One key on a prompt that holds a line
\* ------------------------------------------------------------------------

\* Characters the user has typed: a letter, a space, a combining accent
LineChars == {"a", " ", "U+0301"}

\* The prompt after the user has typed the line and moved the cursor: the
\* change hook has run on the line
typed(s, line, cursor) ==
    editor_changed([s EXCEPT !.editor_line = line,
                             !.editor_cursor = cursor], <<>>)

InitLine ==
    \E action \in {"CHDIR", "SEARCH"}, n \in 0..MaxLine :
      \E line \in [1..n -> LineChars], cursor \in 0..n :
        Started(typed(open_prompt(
                        startup([cwd |-> <<"/", "a">>, dir |-> "A"], <<>>,
                                COL_FILENAME, FALSE, FALSE, MaxLINES),
                        action),
                      line, cursor),
                "line")

LineKey ==
    /\ pc = "line"
    /\ \E c \in EditKeys :
         /\ Looped(handle_key(W, c))
         /\ last' = key_record(W, c)
    /\ pc' = "check"
    /\ UNCHANGED <<iter, fs_changes, rt>>

NextLine == LineKey

SpecLine == InitLine /\ [][NextLine]_vars

\* C20: INPUT_B_DELETE with the cursor right after a spacing code point
\* and the k >= 0 combining code points that follow it erases these k + 1
\* code points, leaves the cursor where the spacing code point was and
\* the rest of the line as it is.
C20_BackspaceCluster ==
    (prompt_key /\ last.action = "INPUT_B_DELETE") =>
        \A p \in 0..(last.cursor - 1) :
            (/\ wcwidth(last.line[p + 1]) > 0
             /\ \A j \in (p + 2)..last.cursor : wcwidth(last.line[j]) = 0)
            => /\ g.editor = last.editor
               /\ g.editor_line =
                    SubSeq(last.line, 1, p)
                    \o SubSeq(last.line, last.cursor + 1, Len(last.line))
               /\ g.editor_cursor = p

\* A letter with an accent has gone in one backspace, the letter after it
\* has stayed
C20_Witness ==
    /\ prompt_key
    /\ last.action = "INPUT_B_DELETE"
    /\ last.line = <<"a", "U+0301", "a">>
    /\ last.cursor = 2
    /\ g.editor_line = <<"a">>
    /\ g.editor_cursor = 0

\* C21: INPUT_DELETE with the cursor at any position 0..len-1 that holds a
\* spacing code point erases that code point and every zero-width code
\* point that directly follows it, leaves the cursor where it was and the
\* rest of the line as it is.
C21_DeleteCluster ==
    (prompt_key /\ last.action = "INPUT_DELETE"
     /\ last.cursor < Len(last.line)
     /\ wcwidth(last.line[last.cursor + 1]) > 0) =>
        \A q \in (last.cursor + 1)..Len(last.line) :
            (/\ \A j \in (last.cursor + 2)..q : wcwidth(last.line[j]) = 0
             /\ (q < Len(last.line) => wcwidth(last.line[q + 1]) > 0))
            => /\ g.editor = last.editor
               /\ g.editor_line =
                    SubSeq(last.line, 1, last.cursor)
                    \o SubSeq(last.line, q + 1, Len(last.line))
               /\ g.editor_cursor = last.cursor

\* ------------------------------------------------------------------------
\* Leaving the program: what main writes for the shell
\* ------------------------------------------------------------------------

\* Bytes of the filenames: a letter, and bytes that mean something to a
\* shell
ExitChars == {"a", " ", "'", "\\", "~", "#", "=", "*"}

Range(f) == {f[i] : i \in DOMAIN f}

ExitNames ==
    UNION { [1..n -> ExitChars] : n \in 1..MaxName }

\* The program in /a, which holds `..' and the names S; nothing or all
\* of S is selected
InitExit ==
    \E S \in {Range(names) : names \in [1..MaxChosen -> ExitNames]},
       all \in BOOLEAN, cursor \in 0..MaxChosen :
      /\ cursor <= Cardinality(S)
      /\ Started([startup([cwd |-> <<"/", "a">>, dir |-> "A"], <<>>,
                          COL_FILENAME, FALSE, FALSE, MaxLINES)
                  EXCEPT !.entries = search_listing(S \cup {DOTDOT}),
                         !.selection = IF all THEN S ELSE {},
                         !.cursor = cursor],
                 "read")

\* What a key that may end the program starts from (history)
exit_record(s, action) ==
    [action |-> action, filename |-> at_cursor(s).filename,
     selection |-> s.selection, cwd |-> s.cwd]

ExitKey(action) ==
    /\ iter < MaxIter
    /\ Handled(handle(W, action, <<>>))
    /\ last' = exit_record(W, action)
    /\ UNCHANGED <<iter, fs_changes, rt>>

ExitChoose == pc = "read" /\ ExitKey("CHOOSE")
ExitChooseFull == pc = "read" /\ ExitKey("CHOOSE_FULL")
ExitQuit == pc = "read" /\ ExitKey("QUIT")
ExitQuitNoChdir == pc = "read" /\ ExitKey("QUIT_NO_CHDIR")
ExitEnter == pc = "read" /\ ExitKey("ENTER")
ExitGoStart == pc = "read" /\ ExitKey("GO_START")

\* ACTION_EDIT with ext-helpers set and neither VISUAL nor EDITOR
ExitEdit ==
    /\ pc = "read"
    /\ iter < MaxIter
    /\ Handled(fix_cursor_and_offset(
                 run_program_ext(W, <<"v", "i">>, at_cursor(W).filename)))
    /\ last' = exit_record(W, "EDIT")
    /\ UNCHANGED <<iter, fs_changes, rt>>

\* The end of main: the configuration is saved, the three lines are
\* written and main returns 0
MainReturn ==
    /\ pc = "exit"
    /\ env' = [env EXCEPT !.config = save_config(W),
                          !.output = main_output(W)]
    /\ pc' = "done"
    /\ UNCHANGED <<g, iter, fs_changes, last, rt>>

NextExit ==
    \/ ExitChoose \/ ExitChooseFull \/ ExitQuit \/ ExitQuitNoChdir
    \/ ExitEnter \/ ExitGoStart \/ ExitEdit \/ Tick \/ MainReturn

SpecExit == InitExit /\ [][NextExit]_vars

\* Quote removal as a POSIX shell does it on one word: '...' is literal,
\* a backslash outside quotes makes the next byte literal
RECURSIVE dequote_from(_, _, _)
dequote_from(text, quoted, out) ==
    IF text = <<>> THEN out
    ELSE IF quoted
         THEN IF Head(text) = "'" THEN dequote_from(Tail(text), FALSE, out)
              ELSE dequote_from(Tail(text), TRUE, Append(out, Head(text)))
    ELSE IF Head(text) = "'" THEN dequote_from(Tail(text), TRUE, out)
    ELSE IF Head(text) = "\\" /\ Len(text) > 1
         THEN dequote_from(Tail(Tail(text)), FALSE, Append(out, text[2]))
    ELSE dequote_from(Tail(text), FALSE, Append(out, Head(text)))

dequote(text) == dequote_from(text, FALSE, <<>>)

\* The text of the directive `name' in what main has written; <<>> when
\* there is not exactly one such line
directive_text(output, name) ==
    LET found == {i \in 1..Len(output) :
                     /\ Len(output[i]) >= 3
                     /\ SubSeq(output[i], 1, 3) = <<"local ", name, "=">>}
    IN  IF Cardinality(found) # 1 THEN <<"none">>
        ELSE SubSeq(output[CHOOSE i \in found : TRUE], 4,
                    Len(output[CHOOSE i \in found : TRUE]))

\* main has returned after a choose action on an entry with nothing
\* selected
chose_one ==
    /\ pc = "done"
    /\ last.action \in {"CHOOSE", "CHOOSE_FULL"}
    /\ last.selection = {}

\* The item that the choose action stands for: the name, or the name
\* after the directory and one slash
chosen_item ==
    IF last.action = "CHOOSE" THEN last.filename
    ELSE IF last.cwd[Len(last.cwd)] = "/" THEN last.cwd \o last.filename
    ELSE last.cwd \o <<"/">> \o last.filename

\* Bytes that no shell gives a meaning to, and the tilde, which
\* needs_shell_quoting does not look for
PlainBytes == {"a", "b", "c", "g", "h", "s", "x", ".", "/", "~"}

\* C22 as stated: with nothing selected, the choose action on the entry f
\* sets the quit flag and the output holds the line local insert='f'
\* (CHOOSE) or local insert='<cwd>/f' (CHOOSE_FULL).
C22_AsStated ==
    chose_one =>
        /\ g.quitting
        /\ directive_text(env.output, "insert") =
             <<"'">> \o (IF last.action = "CHOOSE" THEN last.filename
                         ELSE last.cwd \o <<"/">> \o last.filename)
             \o <<"'">>

\* C22: with nothing selected, the choose action on the entry f sets the
\* quit flag and the output holds one insert line; its text is f (CHOOSE)
\* or the directory, one slash and f (CHOOSE_FULL), bare when every byte
\* of it is plain, and else in quotes such that two quote removals give
\* the item back.
C22_ChooseOutput ==
    chose_one =>
        /\ g.quitting
        /\ g.chosen = <<chosen_item>>
        /\ dequote(dequote(directive_text(env.output, "insert")))
             = chosen_item
        /\ IF \A i \in 1..Len(chosen_item) : chosen_item[i] \in PlainBytes
           THEN directive_text(env.output, "insert") = chosen_item
           ELSE Head(directive_text(env.output, "insert")) = "'"

\* `a' has been chosen in /a, by its name and by its path
C22_Witness ==
    /\ chose_one
    /\ last.filename = <<"a">>
    /\ last.cwd = <<"/", "a">>
    /\ directive_text(env.output, "insert") \in
         { <<"a">>, <<"/", "a", "/", "a">> }

\* What a POSIX shell makes of a text it evaluates as words: fields are
\* split at unquoted blanks, a `~' that starts a word and ends it or
\* stands before a slash becomes $HOME, a `#' that starts a word starts a
\* comment, then the quotes are removed. `open' says that a word has
\* begun.
RECURSIVE sh_scan(_, _, _, _, _)
sh_scan(text, quoted, word, open, fields) ==
    IF text = <<>>
    THEN IF open THEN Append(fields, word) ELSE fields
    ELSE IF quoted
         THEN IF Head(text) = "'"
              THEN sh_scan(Tail(text), FALSE, word, TRUE, fields)
              ELSE sh_scan(Tail(text), TRUE, Append(word, Head(text)),
                           TRUE, fields)
    ELSE IF Head(text) \in {" ", "\t", "\n"}
         THEN sh_scan(Tail(text), FALSE, <<>>, FALSE,
                      IF open THEN Append(fields, word) ELSE fields)
    ELSE IF Head(text) = "#" /\ ~open THEN fields
    ELSE IF /\ Head(text) = "~" /\ ~open
            /\ (Len(text) = 1 \/ text[2] \in {" ", "\t", "\n", "/"})
         THEN sh_scan(Tail(text), FALSE, HOME, TRUE, fields)
    ELSE IF Head(text) = "'"
         THEN sh_scan(Tail(text), TRUE, word, TRUE, fields)
    ELSE IF Head(text) = "\\" /\ Len(text) > 1
         THEN sh_scan(Tail(Tail(text)), FALSE, Append(word, text[2]),
                      TRUE, fields)
    ELSE sh_scan(Tail(text), FALSE, Append(word, Head(text)), TRUE, fields)

sh_words(text) == sh_scan(text, FALSE, <<>>, FALSE, <<>>)

\* main has returned after a choose action
chose_some == pc = "done" /\ g.chosen # <<>>

\* C23: for every list of chosen filenames, the value that the shell
\* gives `insert' when it evaluates the directive is one word, and the
\* words that a shell makes of that value in turn are the chosen
\* filenames in their order.
C23_InsertRoundTrip ==
    chose_some =>
        /\ Len(sh_words(directive_text(env.output, "insert"))) = 1
        /\ sh_words(sh_words(directive_text(env.output, "insert"))[1])
             = g.chosen

\* C24: when main returns it has written three directives, cd, insert
\* and helper in this order; the value of cd is the current directory
\* when that is not the start directory and the session was ended
\* neither by QUIT_NO_CHDIR nor by CHOOSE_FULL, and is empty otherwise.
C24_Directives ==
    pc = "done" =>
        /\ Len(env.output) = 3
        /\ \A i \in 1..3 :
             /\ Len(env.output[i]) >= 3
             /\ env.output[i][1] = "local "
             /\ env.output[i][2] = <<"cd", "insert", "helper">>[i]
             /\ env.output[i][3] = "="
        /\ IF /\ g.cwd # g.start_dir
              /\ last.action \notin {"QUIT_NO_CHDIR", "CHOOSE_FULL"}
           THEN sh_words(directive_text(env.output, "cd")) = <<g.cwd>>
           ELSE directive_text(env.output, "cd") = <<>>

\* The user has gone up to / and quit: the shell is told to follow
C24_Witness ==
    /\ pc = "done"
    /\ g.start_dir = <<"/", "a">>
    /\ g.cwd = <<"/">>
    /\ last.action = "QUIT"
    /\ directive_text(env.output, "cd") = <<"/">>

\* ------------------------------------------------------------------------
\* The history in the configuration file
\* ------------------------------------------------------------------------

\* Sessions that have written history lines: this one's shell and others
ConfigHosts == {hostname, <<"o">>}
ConfigParents == {ppid, <<"8">>}

\* Levels that sessions have left in the file
ConfigLevels ==
    { [offset |-> 0, cursor |-> 1, path |-> <<"/">>,
       filename |-> <<"a">>, selection |-> {}],
      [offset |-> 0, cursor |-> 3, path |-> <<"/", "a">>,
       filename |-> <<"g">>, selection |-> {<<"g">>}],
      [offset |-> 0, cursor |-> 1, path |-> <<"/", "a">>,
       filename |-> <<"b">>, selection |-> {}] }

ConfigLines ==
    { history_line(h, p, l) :
        h \in ConfigHosts, p \in ConfigParents, l \in ConfigLevels }

RECURSIVE concat(_)
concat(lines) ==
    IF lines = <<>> THEN <<>> ELSE Head(lines) \o concat(Tail(lines))

\* The file: the sort column, then up to MaxHistory history lines
ConfigFiles ==
    { write_line(<<<<"sort-column">>, to_string(COL_FILENAME)>>)
      \o concat(lines) :
        lines \in UNION { [1..n -> ConfigLines] : n \in 0..MaxHistory } }

\* main up to the event loop, with load_config reading the file
startup_config(start, config, lines) ==
    [startup(start, load_config(config).levels,
             load_config(config).sort_column,
             load_config(config).reverse_sort,
             load_config(config).show_hidden, lines)
     EXCEPT !.config = config]

\* `last' holds the file as it was when the session started (history)
InitConfig ==
    \E start \in { [cwd |-> <<"/", "a">>, dir |-> "A"],
                   [cwd |-> <<"/", "a", "/", "b">>, dir |-> "B"] },
       config \in ConfigFiles :
      /\ g = g_of(startup_config(start, config, MaxLINES))
      /\ env = env_of(startup_config(start, config, MaxLINES))
      /\ pc = "read"
      /\ iter = 0
      /\ fs_changes = 0
      /\ last = [config |-> config, start |-> start]
      /\ rt = NoTrip

ConfigKey(action) ==
    /\ iter < MaxIter
    /\ Handled(handle(W, action, <<>>))
    /\ UNCHANGED <<iter, fs_changes, last, rt>>

ConfigEnter == pc = "read" /\ ConfigKey("ENTER")
ConfigParent == pc = "read" /\ ConfigKey("PARENT")
ConfigDown == pc = "read" /\ ConfigKey("DOWN")
ConfigQuit == pc = "read" /\ ConfigKey("QUIT")

ConfigTick ==
    /\ pc = "check"
    /\ Looped(loop_body(W))
    /\ pc' = "read"
    /\ iter' = iter + 1
    /\ UNCHANGED <<fs_changes, last, rt>>

NextConfig ==
    \/ ConfigEnter \/ ConfigParent \/ ConfigDown \/ ConfigQuit
    \/ ConfigTick \/ MainReturn

SpecConfig == InitConfig /\ [][NextConfig]_vars

\* The lines of a file, each with its end
RECURSIVE lines_of(_, _)
lines_of(text, line) ==
    IF text = <<>> THEN IF line = <<>> THEN <<>> ELSE <<line>>
    ELSE IF Head(text) = "\n"
         THEN <<Append(line, "\n")>> \o lines_of(Tail(text), <<>>)
         ELSE lines_of(Tail(text), Append(line, Head(text)))

\* A history line that another session wrote: another host or another
\* parent shell
foreign_line(line) ==
    /\ parse_line(line).ok
    /\ Len(parse_line(line).out) >= 3
    /\ parse_line(line).out[1] = <<"history">>
    /\ \/ parse_line(line).out[2] # hostname
       \/ parse_line(line).out[3] # ppid

\* The file without the history lines of other sessions
RECURSIVE own_lines(_)
own_lines(lines) ==
    IF lines = <<>> THEN <<>>
    ELSE (IF foreign_line(Head(lines)) THEN <<>> ELSE Head(lines))
         \o own_lines(Tail(lines))

\* C25: the history lines that other hosts or other parent shells wrote
\* have no influence on where the session starts: the state after
\* startup is the state after startup from the file without them
\* (history stack, cursor, offset, selection).
C25_ForeignHistoryIgnored ==
    (pc = "read" /\ iter = 0) =>
        nav_of(W) =
          nav_of(startup_config(last.start,
                                own_lines(lines_of(last.config, <<>>)),
                                MaxLINES))

\* C26: every history line of another session that was in the file when
\* this session started is in the file, as it was, after save_config.
C26_ForeignHistoryKept ==
    pc = "done" =>
        \A i \in 1..Len(lines_of(last.config, <<>>)) :
            foreign_line(lines_of(last.config, <<>>)[i]) =>
                \E j \in 1..Len(lines_of(env.config, <<>>)) :
                    lines_of(env.config, <<>>)[j]
                      = lines_of(last.config, <<>>)[i]

\* ------------------------------------------------------------------------
\* The directory the session starts in
\* ------------------------------------------------------------------------

\* Values of PWD: not set, or up to MaxPwd bytes
PwdChars == {"/", ".", "a", "b", "s"}

PwdValues ==
    {NULL} \cup UNION { [1..n -> PwdChars] : n \in 0..MaxPwd }

\* The global g as it is constructed, before main has set the directory
unstarted ==
    [startup([cwd |-> <<"/">>, dir |-> "R"], <<>>, COL_FILENAME, FALSE,
             FALSE, MaxLINES)
     EXCEPT !.cwd = <<>>, !.start_dir = <<>>, !.entries = <<>>,
            !.watch_wd = "none"]

\* main up to the event loop in directory dir with PWD = pwd; `last' keeps
\* what the process was started with (history). A std::string made from
\* a null pointer is undefined: the standard libraries throw
\* std::logic_error or read through the pointer, and main does not go on
InitStart ==
    \E dir \in {"R", "A", "B", "D"}, pwd \in PwdValues :
      \/ /\ initial_cwd([g |-> TRUE, unreadable |-> {}], dir, pwd) # NULL
         /\ g = g_of(startup(
                       [cwd |-> initial_cwd([g |-> TRUE, unreadable |-> {}],
                                            dir, pwd),
                        dir |-> dir],
                       <<>>, COL_FILENAME, FALSE, FALSE, MaxLINES))
         /\ env = env_of(startup(
                       [cwd |-> initial_cwd([g |-> TRUE, unreadable |-> {}],
                                            dir, pwd),
                        dir |-> dir],
                       <<>>, COL_FILENAME, FALSE, FALSE, MaxLINES))
         /\ pc = "read"
         /\ iter = 0
         /\ fs_changes = 0
         /\ last = [PWD |-> pwd, dir |-> dir, died |-> "no"]
         /\ rt = NoTrip
      \/ /\ initial_cwd([g |-> TRUE, unreadable |-> {}], dir, pwd) = NULL
         /\ g = g_of(unstarted)
         /\ env = env_of([unstarted EXCEPT !.proc_cwd = dir])
         /\ pc = "aborted"
         /\ iter = 0
         /\ fs_changes = 0
         /\ \E died \in {"std::logic_error", "SIGSEGV"} :
              last = [PWD |-> pwd, dir |-> dir, died |-> died]
         /\ rt = NoTrip

SpecStart == InitStart /\ [][NextConfig]_vars

\* A position of pwd where a component `.' or `..' starts
dot_component_at(pwd, i) ==
    /\ pwd[i] = "."
    /\ (i = 1 \/ pwd[i - 1] = "/")
    /\ \/ i = Len(pwd)
       \/ pwd[i + 1] = "/"
       \/ /\ pwd[i + 1] = "."
          /\ (i + 1 = Len(pwd) \/ pwd[i + 2] = "/")

\* PWD has been validated against the working directory
pwd_validated ==
    /\ last.PWD # NULL
    /\ last.PWD # <<>>
    /\ last.PWD[1] = "/"
    /\ Len(last.PWD) < PATH_MAX
    /\ ~\E i \in 1..Len(last.PWD) : dot_component_at(last.PWD, i)
    /\ getcwd(last.dir) # <<>>
    /\ realpath(env.fs, last.dir, last.PWD) = getcwd(last.dir)

\* C27: the directory the session starts in is PWD only when PWD has
\* been validated against the working directory (absolute, shorter than
\* PATH_MAX, no `.' or `..' component, realpath equal to what getcwd
\* gives); in every other case it is what getcwd gives, never PWD.
C27_InitialCwd ==
    IF pwd_validated
    THEN pc # "aborted" /\ g.start_dir = last.PWD
    ELSE /\ pc # "aborted"
         /\ getcwd(last.dir) # <<>>
         /\ g.start_dir = getcwd(last.dir)

\* ------------------------------------------------------------------------
\* A helper program and job control
\* ------------------------------------------------------------------------

InitHelper ==
    \E lines \in MinLINES..MaxLINES :
      Started(startup([cwd |-> <<"/", "a">>, dir |-> "A"], <<>>,
                      COL_FILENAME, FALSE, FALSE, lines), "read")

\* ACTION_EDIT without ext-helpers: run_program up to waitpid, or to its
\* end when fork fails
HelperFork ==
    /\ pc = "read"
    /\ iter < MaxIter
    /\ \/ /\ env' = [env EXCEPT !.job = forked(@)]
          /\ pc' = "waitpid"
          /\ UNCHANGED g
       \/ Handled(fix_cursor_and_offset(W))
    /\ UNCHANGED <<iter, fs_changes, last, rt>>

\* A job-control signal stops the helper
StopSignals == {"SIGTSTP", "SIGSTOP", "SIGTTIN", "SIGTTOU"}

ChildStops ==
    /\ env.job.state = "running"
    /\ env.job.stops < MaxStops
    /\ \E sig \in StopSignals :
         env' = [env EXCEPT !.job = [@ EXCEPT !.state = "stopped",
                                             !.sig = sig,
                                             !.reported = FALSE,
                                             !.stops = @ + 1]]
    /\ UNCHANGED <<g, pc, iter, fs_changes, last, rt>>

\* The helper exits with a status
ChildExits ==
    /\ env.job.state = "running"
    /\ \E status \in {0, 1} :
         env' = [env EXCEPT !.job = [@ EXCEPT !.state = "exited",
                                             !.status = status]]
    /\ UNCHANGED <<g, pc, iter, fs_changes, last, rt>>

\* waitpid returns for a stopped child and is called again
WaitStopped ==
    /\ pc = "waitpid"
    /\ env.job.state = "stopped"
    /\ ~env.job.reported
    /\ env' = [env EXCEPT !.job = wait_stopped(@)]
    /\ UNCHANGED <<g, pc, iter, fs_changes, last, rt>>

\* waitpid returns for the child that has exited; a status other than 0
\* is shown until the user presses Enter
WaitExited ==
    /\ pc = "waitpid"
    /\ env.job.state = "exited"
    /\ IF env.job.status # 0
       THEN /\ env' = [env EXCEPT !.job = wait_exited(@)]
            /\ pc' = "getline"
            /\ UNCHANGED g
       ELSE Handled(fix_cursor_and_offset(
                      [W EXCEPT !.job = wait_exited(@)]))
    /\ UNCHANGED <<iter, fs_changes, last, rt>>

PressEnter ==
    /\ pc = "getline"
    /\ Handled(fix_cursor_and_offset(W))
    /\ UNCHANGED <<iter, fs_changes, last, rt>>

NextHelper ==
    \/ HelperFork \/ ChildStops \/ ChildExits \/ WaitStopped \/ WaitExited
    \/ PressEnter \/ ConfigDown \/ ConfigTick

SpecHelper == InitHelper /\ [][NextHelper]_vars

\* C28: when a job-control signal stops the helper, the parent makes it
\* run again, so that run_program never waits for a child that is
\* stopped; when run_program has returned the terminal's foreground
\* process group is the program's again.
C28_StoppedChildResumed ==
    /\ ~(pc = "waitpid" /\ env.job.state = "stopped" /\ env.job.reported)
    /\ pc \in {"read", "check"} => env.job.fg = "sdn"

\* ------------------------------------------------------------------------
\* filter_selection as an operation of its own
\* ------------------------------------------------------------------------

\* The program in a directory that holds the names S, with a selection
\* that was made on some other listing
InitFilter ==
    \E S \in {S \in SUBSET SearchNames : Cardinality(S) <= MaxLen},
       selection \in SUBSET SearchNames :
      Started([startup([cwd |-> <<"/", "a">>, dir |-> "A"], <<>>,
                       COL_FILENAME, FALSE, FALSE, MaxLINES)
               EXCEPT !.entries = search_listing(S),
                      !.selection = selection],
              "filter")

\* `g.selection = filter_selection (g.selection)', once and once more
FilterStep ==
    /\ pc \in {"filter", "filtered"}
    /\ g' = [g EXCEPT !.selection = filter_selection(W, g.selection)]
    /\ pc' = IF pc = "filter" THEN "filtered" ELSE "refiltered"
    /\ last' = [selection |-> g.selection,
                original |-> IF pc = "filter" THEN g.selection
                             ELSE last.original]
    /\ UNCHANGED <<env, iter, fs_changes, rt>>

NextFilter == FilterStep

SpecFilter == InitFilter /\ [][NextFilter]_vars

\* C29: filter_selection (S) is the set of the filenames that are in S
\* and in the listing; applied to its own result on the same listing it
\* returns that result.
C29_FilterSelection ==
    /\ pc \in {"filtered", "refiltered"} =>
         g.selection =
           {n \in last.selection :
              \E i \in 1..Len(g.entries) : g.entries[i].filename = n}
    /\ pc = "refiltered" => g.selection = last.selection

\* A selection of a name that is listed and of one that is not has been
\* filtered twice: the first application dropped the name that is not
\* listed, the second changed nothing
C29_Witness ==
    /\ pc = "refiltered"
    /\ last.original = {<<"a">>, <<"b">>}
    /\ last.selection = {<<"a">>}
    /\ g.selection = {<<"a">>}
    /\ \A i \in 1..Len(g.entries) : g.entries[i].filename # <<"b">>

\* ------------------------------------------------------------------------
\* A poll of the watch
\* ------------------------------------------------------------------------

\* The batch that the coming poll drains holds an event of the watch on
\* the current directory
batch_has_current == \E i \in 1..Len(env.events) : env.events[i]

\* watch_check leaves the listing, the cursor, the offset, the selection
\* and the history levels alone
PollFrame ==
    [][ Tick => /\ g'.entries = g.entries
                /\ g'.cursor = g.cursor
                /\ g'.offset = g.offset
                /\ g'.selection = g.selection
                /\ g'.levels = g.levels ]_vars

\* C30: a poll sets the stale flag when any event of the drained batch
\* belongs to the watch on the current directory, whatever its position
\* and whatever precedes it, and it changes neither the listing nor the
\* cursor, the offset, the selection or the history.
C30_PollSetsStale ==
    [][ Tick => /\ batch_has_current => g'.out_of_date
                /\ g'.entries = g.entries
                /\ g'.cursor = g.cursor
                /\ g'.offset = g.offset
                /\ g'.selection = g.selection
                /\ g'.levels = g.levels ]_vars

\* ------------------------------------------------------------------------
\* change_dir as an operation of its own
\* ------------------------------------------------------------------------

PathChars == {"/", ".", "a", "b", "c", "s"}

\* The arguments of change_dir
Paths == UNION {[1..n -> PathChars] : n \in 0..MaxPath}

\* Where the session is: the directories of StartDirs, and /a spelled //a
ChdirStarts ==
    StartDirs \cup {[cwd |-> <<"/", "/", "a">>, dir |-> "A"]}

InitChdir ==
    \E start \in ChdirStarts :
      Started(startup(start, <<>>, COL_FILENAME, FALSE, FALSE, MaxLINES),
              "chdir")

\* change_dir (path)
ChdirStep ==
    /\ pc = "chdir"
    /\ \E path \in Paths :
         /\ Looped(change_dir(W, path))
         /\ last' = [from |-> g.cwd, path |-> path,
                     cd |-> IF change_dir_target(W, path).message = <<>>
                            THEN "ok" ELSE "fail"]
    /\ pc' = "changed"
    /\ UNCHANGED <<iter, fs_changes, rt>>

NextChdir == ChdirStep

SpecChdir == InitChdir /\ [][NextChdir]_vars

\* The components of a path: what stands between its slashes
RECURSIVE split_slashes(_, _, _)
split_slashes(text, word, words) ==
    IF text = <<>> THEN Append(words, word)
    ELSE IF Head(text) = "/"
         THEN split_slashes(Tail(text), <<>>, Append(words, word))
         ELSE split_slashes(Tail(text), Append(word, Head(text)), words)

components_of(path) == split_slashes(path, <<>>, <<>>)

RECURSIVE leading_slashes(_)
leading_slashes(path) ==
    IF path = <<>> \/ Head(path) # "/" THEN 0
    ELSE 1 + leading_slashes(Tail(path))

\* The components that remain: none that is empty or `.', and each `..'
\* has taken the one before it with it
RECURSIVE cd_L_stack(_, _)
cd_L_stack(comps, stack) ==
    IF comps = <<>> THEN stack
    ELSE IF Head(comps) \in {<<>>, <<".">>}
         THEN cd_L_stack(Tail(comps), stack)
    ELSE IF Head(comps) = DOTDOT
         THEN cd_L_stack(Tail(comps),
                         IF stack = <<>> THEN stack
                         ELSE SubSeq(stack, 1, Len(stack) - 1))
    ELSE cd_L_stack(Tail(comps), Append(stack, Head(comps)))

RECURSIVE cd_L_join(_)
cd_L_join(stack) ==
    IF stack = <<>> THEN <<>>
    ELSE IF Len(stack) = 1 THEN Head(stack)
    ELSE Head(stack) \o <<"/">> \o cd_L_join(Tail(stack))

\* The path to resolve: the argument, after the logical cwd and a slash
\* (unless the cwd ends in one) when the argument is relative
cd_L_curpath(cwd, path) ==
    IF path # <<>> /\ Head(path) = "/" THEN path
    ELSE IF cwd[Len(cwd)] = "/" THEN cwd \o path
    ELSE cwd \o <<"/">> \o path

\* The directory that `cd -L path' names in the logical directory cwd
cd_L(cwd, path) ==
    (IF leading_slashes(cd_L_curpath(cwd, path)) = 2
     THEN <<"/", "/">> ELSE <<"/">>)
    \o cd_L_join(cd_L_stack(components_of(cd_L_curpath(cwd, path)), <<>>))

\* An absolute path without `.', `..' and empty components, the roots /
\* and // apart
canonical_path(path) ==
    \/ path \in {<<"/">>, <<"/", "/">>}
    \/ /\ path # <<>>
       /\ Head(path) = "/"
       /\ path[Len(path)] # "/"
       /\ leading_slashes(path) <= 2
       /\ \A i \in 1..Len(components_of(path)) :
            /\ components_of(path)[i] \notin {<<".">>, DOTDOT}
            /\ components_of(path)[i] = <<>> => i <= leading_slashes(path)

\* C31: change_dir resolves its argument textually against the logical
\* cwd as `cd -L' does (`.' dropped, `..' takes the component before it
\* but never the root, exactly two leading slashes kept, three or more
\* and inner empty components collapsed); `..' from /a/b gives /a and from
\* the link /s gives /, `..' at / stays at /, and the cwd that results is
\* absolute without `.', `..' or a trailing slash.
C31_ChangeDirResolves ==
    pc = "changed" =>
      /\ last.cd = "ok" =>
           /\ g.cwd = cd_L(last.from, last.path)
           /\ canonical_path(g.cwd)
      /\ last.cd = "fail" => g.cwd = last.from
      /\ last.path = DOTDOT /\ last.from = <<"/", "a", "/", "b">> =>
           g.cwd = <<"/", "a">>
      /\ last.path = DOTDOT /\ last.from = <<"/", "s">> => g.cwd = <<"/">>
      /\ last.path = DOTDOT /\ last.from = <<"/">> =>
           last.cd = "ok" /\ g.cwd = <<"/">>

\* In /s, a link to /a/b, change_dir (`..//a') has entered /a: `..' took
\* the link's name from the logical path and the empty component went
C31_Witness ==
    /\ pc = "changed"
    /\ last.from = <<"/", "s">>
    /\ last.path = <<".", ".", "/", "/", "a">>
    /\ last.cd = "ok"
    /\ g.cwd = <<"/", "a">>
    /\ env.proc_cwd = "A"

\* ------------------------------------------------------------------------
\* Moving the cursor of a prompt, killing a word
\* ------------------------------------------------------------------------

\* The cursor stands at the start of the line, at its end, or on a code
\* point that takes columns
on_spacing_boundary(line, cursor) ==
    \/ cursor = 0
    \/ cursor = Len(line)
    \/ /\ cursor \in 1..(Len(line) - 1)
       /\ wcwidth(line[cursor + 1]) # 0

\* The code points of the line from the p-th to the q-th (counted from 1)
\* have no width
all_zero_width(line, p, q) == \A j \in p..q : wcwidth(line[j]) = 0

\* C32: INPUT_BACKWARD and INPUT_FORWARD move the cursor over one spacing
\* unit (a spacing code point and the zero-width code points that follow
\* it) when there is one in that direction; afterwards the cursor is at
\* 0, at the end of the line or on a code point of non-zero width, and the
\* line is what it was.
C32_CursorMoves ==
    /\ (prompt_key /\ last.action = "INPUT_FORWARD") =>
         /\ g.editor = last.editor
         /\ g.editor_line = last.line
         /\ on_spacing_boundary(g.editor_line, g.editor_cursor)
         /\ (last.cursor < Len(last.line)
             /\ wcwidth(last.line[last.cursor + 1]) # 0) =>
              \A q \in (last.cursor + 1)..Len(last.line) :
                  (/\ all_zero_width(last.line, last.cursor + 2, q)
                   /\ q < Len(last.line) => wcwidth(last.line[q + 1]) # 0)
                  => g.editor_cursor = q
    /\ (prompt_key /\ last.action = "INPUT_BACKWARD") =>
         /\ g.editor = last.editor
         /\ g.editor_line = last.line
         /\ on_spacing_boundary(g.editor_line, g.editor_cursor)
         /\ \A p \in 0..(last.cursor - 1) :
                (/\ wcwidth(last.line[p + 1]) # 0
                 /\ all_zero_width(last.line, p + 2, last.cursor))
                => g.editor_cursor = p

\* Forward over a letter and its accent, with a letter left behind them
C32_Witness ==
    /\ prompt_key
    /\ last.action = "INPUT_FORWARD"
    /\ last.line = <<"a", "U+0301", "a">>
    /\ last.cursor = 0
    /\ g.editor_line = <<"a", "U+0301", "a">>
    /\ g.editor_cursor = 2

\* Where the run of spaces that ends at position c begins
spaces_start(line, c) ==
    CHOOSE s \in 0..c :
        /\ \A j \in (s + 1)..c : line[j] = " "
        /\ s > 0 => line[s] # " "

\* Where the run of non-spaces that ends at position s begins
word_start(line, s) ==
    CHOOSE i \in 0..s :
        /\ \A j \in (i + 1)..s : line[j] # " "
        /\ i > 0 => line[i] = " "

\* C33: INPUT_B_KILL_WORD erases the code points from i to the cursor,
\* where i is found by skipping the spaces right before the cursor and
\* then the non-spaces before them (down to the start of the line); the
\* cursor becomes i, what was before i and after the cursor stays.
C33_KillWord ==
    (prompt_key /\ last.action = "INPUT_B_KILL_WORD") =>
        /\ g.editor = last.editor
        /\ g.editor_cursor =
             word_start(last.line, spaces_start(last.line, last.cursor))
        /\ g.editor_line =
             SubSeq(last.line, 1, g.editor_cursor)
             \o SubSeq(last.line, last.cursor + 1, Len(last.line))

\* A word and the space after it have gone, the space before the word
\* has not
C33_Witness ==
    /\ prompt_key
    /\ last.action = "INPUT_B_KILL_WORD"
    /\ last.line = <<" ", "a", " ">>
    /\ last.cursor = 3
    /\ g.editor_line = <<" ">>
    /\ g.editor_cursor = 1

\* ------------------------------------------------------------------------
\* The countdown of a message
\* ------------------------------------------------------------------------

\* The session starts in /a, or in a removed directory with the message
\* of the failed getcwd on the screen
InitMessage ==
    \E start \in {[cwd |-> <<"/", "a">>, dir |-> "A"],
                  [cwd |-> <<"x">>, dir |-> "D"]} :
      /\ g = g_of(startup(start, <<>>, COL_FILENAME, FALSE, FALSE,
                          MaxLINES))
      /\ env = env_of(startup(start, <<>>, COL_FILENAME, FALSE, FALSE,
                              MaxLINES))
      /\ pc = "read"
      /\ iter = 0
      /\ fs_changes = 0
      /\ last = [shown |-> 0]
      /\ rt = NoTrip

\* handle (c) has returned for a key that does not end the session;
\* `shows' tells whether it has called show_message
MessageHandled(s, shows) ==
    /\ ~s.quitting
    /\ Looped(s)
    /\ pc' = "check"
    /\ last' = [shown |-> last.shown + (IF shows THEN 1 ELSE 0)]
    /\ UNCHANGED <<iter, fs_changes, rt>>

\* The user confirms a directory that cannot be entered in the chdir
\* prompt
MessageKeyFails ==
    /\ pc = "read"
    /\ last.shown < MaxShown
    /\ \E line \in {<<"x">>, <<"g">>, <<"g", "/", ".", ".">>} :
         /\ change_dir_target(W, untilde(line)).message # <<>>
         /\ MessageHandled(handle(W, "CHDIR", line), TRUE)

\* The user presses a key that shows nothing
MessageKeyQuiet ==
    /\ pc = "read"
    /\ \E action \in {"DOWN", "UP"} :
         MessageHandled(handle(W, action, <<>>), FALSE)

\* The user quits
MessageQuit ==
    /\ pc = "read"
    /\ Looped(handle(W, "QUIT", <<>>))
    /\ pc' = "exit"
    /\ UNCHANGED <<iter, fs_changes, last, rt>>

\* read_key has timed out after a tenth of a second
MessageTimeout ==
    /\ pc = "read"
    /\ pc' = "check"
    /\ UNCHANGED <<g, env, iter, fs_changes, last, rt>>

\* The body of the event loop
MessageTick ==
    /\ pc = "check"
    /\ Looped(loop_body(W))
    /\ pc' = "read"
    /\ UNCHANGED <<iter, fs_changes, last, rt>>

NextMessage ==
    \/ MessageKeyFails \/ MessageKeyQuiet \/ MessageQuit
    \/ MessageTimeout \/ MessageTick

\* halfdelay (1) lets read_key return after a tenth of a second, and the
\* loop body ends
SpecMessage ==
    /\ InitMessage
    /\ [][NextMessage]_vars
    /\ WF_vars(MessageTimeout)
    /\ WF_vars(MessageTick)

\* What one step does to the message and its counter
message_step ==
    /\ (pc = "check" /\ g.message_ttl > 0) =>
         g'.message_ttl = g.message_ttl - 1
    /\ (pc = "check" /\ g.message # <<>>) =>
         /\ g'.message = <<>> <=> g'.message_ttl = 0
         /\ g'.message # <<>> => g'.message = g.message
    /\ pc # "check" =>
         \/ g'.message = g.message /\ g'.message_ttl = g.message_ttl
         \/ /\ last'.shown = last.shown + 1
            /\ g'.message # <<>>
            /\ g'.message_ttl = MESSAGE_TTL

names_of(path) ==
    SelectSeq(components_of(path), LAMBDA c : c \notin {<<>>, <<".">>})

\* Directory a lies above directory b, both given by absolute paths
proper_ancestor(a, b) ==
    /\ a # <<>> /\ Head(a) = "/"
    /\ b # <<>> /\ Head(b) = "/"
    /\ Len(names_of(a)) < Len(names_of(b))
    /\ SubSeq(names_of(b), 1, Len(names_of(a))) = names_of(a)

\* C35: with no saved history or the history of an earlier run, the paths
\* of the history levels are, from the bottom up, each a proper ancestor
\* of the next, and each a proper ancestor of the cwd.
C35_LevelsChain ==
    \A i \in 1..Len(g.levels) :
        /\ proper_ancestor(g.levels[i].path, g.cwd)
        /\ i < Len(g.levels) =>
             proper_ancestor(g.levels[i].path, g.levels[i + 1].path)

\* ------------------------------------------------------------------------
\* The editor between prompts
\* ------------------------------------------------------------------------

\* A key has just been handled while no prompt was open, and it has
\* opened a prompt
prompt_opened ==
    /\ pc \in {"check", "exit"}
    /\ last.editor = ""
    /\ last.action \in PromptActions

\* C36: while no prompt is open the line of the editor is empty, its
\* cursor is 0, quoted insert is off, no change hook is set and no handler
\* is registered; so every prompt but that of RENAME_PREFILL opens with an
\* empty line.
C36_EditorIdle ==
    /\ g.editor = "" =>
         /\ g.editor_line = <<>>
         /\ g.editor_cursor = 0
         /\ ~g.editor_inserting
         /\ g.editor_on_change = ""
         /\ g.editor_on = {}
    /\ (prompt_opened /\ last.action # "RENAME_PREFILL") =>
         /\ g.editor # ""
         /\ g.editor_line = <<>>
         /\ g.editor_cursor = 0

\* The prompt of RENAME_PREFILL has been left with the name still on its
\* line, and the editor is idle
C36_Witness ==
    /\ prompt_key
    /\ last.editor = "rename"
    /\ last.action = "INPUT_ABORT"
    /\ last.line = DOTDOT
    /\ last.cursor = 2
    /\ g.editor = ""
    /\ g.editor_line = <<>>
    /\ g.editor_cursor = 0

\* C37: the cursor of the editor is never before the start of the line
\* nor after its end, whatever has been typed, edited, inserted quoted,
\* handled by the search prompt or opened.
C37_CursorInLine ==
    /\ g.editor_cursor >= 0
    /\ g.editor_cursor <= Len(g.editor_line)

\* INPUT_FORWARD at the end of a line that has been typed has left the
\* cursor at the end
C37_Witness ==
    /\ prompt_key
    /\ last.action = "INPUT_FORWARD"
    /\ last.line # <<>>
    /\ last.cursor = Len(last.line)
    /\ g.editor_cursor = Len(g.editor_line)
    /\ g.editor_line = last.line

\* ------------------------------------------------------------------------
\* The prompts on a listing that may be empty
\* ------------------------------------------------------------------------

\* The session starts in /, in /a, or in a directory that has been
\* removed, where readdir returns nothing; the root may have lost its read
\* permission since
InitEmpty ==
    \E start \in {[cwd |-> <<"/">>, dir |-> "R"],
                  [cwd |-> <<"/", "a">>, dir |-> "A"],
                  [cwd |-> <<"/", "a", "/", "b">>, dir |-> "D"]},
       unreadable \in {{}, {"R"}} :
      Started([startup(start, <<>>, COL_FILENAME, FALSE, FALSE, MaxLINES)
               EXCEPT !.fs.unreadable = unreadable],
              "read")

\* handle_editor has cleared g.editor_inserting
editor_entered(s) == [s EXCEPT !.editor_inserting = FALSE]

\* The state once the switch of handle_editor is through, the change hook
\* not yet called
editor_switched(s, c) ==
    editor_case(editor_entered(s), editor_action(s, c), c)

\* The states in which match is called while handle (c) runs: by the UP
\* and DOWN handlers of the search prompt, and by its change hook
match_calls(s, c) ==
    IF s.editor # "search" THEN {}
    ELSE (IF /\ editor_action(s, c) \in {"UP", "DOWN"}
             /\ editor_action(s, c) \in s.editor_on
          THEN {editor_entered(s)} ELSE {})
         \cup
         (IF editor_action(s, c) \in {"INPUT_CONFIRM", "INPUT_ABORT"}
          THEN {}
          ELSE IF /\ editor_switched(s, c).editor_on_change = "search"
                  /\ editor_switched(s, c).editor_line # s.editor_line
               THEN {editor_switched(s, c)} ELSE {})

\* handle (c) reads g.entries at an index that the listing does not have
handle_reads_outside(s, c) ==
    \/ s.cursor < 0
    \/ \E m \in match_calls(s, c) : reads_outside(m)

\* What handle starts from for a key, and whether it reads outside the
\* listing (history)
probe_record(s, c) ==
    [key |-> c, editor |-> s.editor,
     action |-> IF s.editor # "" THEN editor_action(s, c)
                ELSE g_normal_actions(s.bindings, c),
     entries |-> Len(s.entries), cursor |-> s.cursor,
     outside |-> handle_reads_outside(s, c)]

\* Keys that open the search prompt and enter the entry under the cursor
\* from it, letters, the keys that move among the matches, and those
\* that confirm, delete and leave
EmptyKeys == {"/", "a", "b", "KEY_UP", "KEY_DOWN", "CR", "BS", "ESC"}

\* read_key has returned a key and handle has handled it
EmptyKey ==
    /\ pc = "read"
    /\ iter < MaxKeys
    /\ \E c \in EmptyKeys :
         /\ Handled(handle_key(W, c))
         /\ last' = probe_record(W, c)
    /\ UNCHANGED <<iter, fs_changes, rt>>

\* handle has read outside the listing and the process has got SIGSEGV
EmptyFault ==
    /\ pc = "read"
    /\ iter < MaxKeys
    /\ \E c \in EmptyKeys :
         /\ handle_reads_outside(W, c)
         /\ last' = probe_record(W, c)
    /\ pc' = "aborted"
    /\ UNCHANGED <<g, env, iter, fs_changes, rt>>

NextEmpty == EmptyKey \/ EmptyFault \/ Tick

SpecEmpty == InitEmpty /\ [][NextEmpty]_vars

\* C38: no action and no handler of a prompt reads the listing at an
\* index outside [0, len): each read of the entry under the cursor, the
\* matching while the user types in the search prompt and that after its
\* enter handler has changed the directory included, is at a valid index
\* or guarded for the empty listing.
C38_ReadsInListing ==
    /\ g.cursor >= 0
    /\ pc \in {"check", "exit", "aborted"} => ~last.outside

\* ------------------------------------------------------------------------
\* Choosing with entries selected
\* ------------------------------------------------------------------------

\* The session is in / or /a with a listing of the names S, of which any
\* may be selected, or in a removed directory (getcwd has failed, the cwd
\* is the text of PWD, the listing is empty) where SELECT_TOGGLE may have
\* selected the empty name
InitChoose ==
    \/ \E start \in {[cwd |-> <<"/">>, dir |-> "R"],
                     [cwd |-> <<"/", "a">>, dir |-> "A"]},
          S \in {S \in SUBSET SearchNames : Cardinality(S) <= MaxLen},
          cursor \in 0..MaxLen :
         \E selection \in SUBSET S :
           Started(fix_cursor_and_offset(
                     [startup(start, <<>>, COL_FILENAME, FALSE, FALSE,
                              MaxLINES)
                      EXCEPT !.entries = search_listing(S),
                             !.selection = selection,
                             !.cursor = cursor]),
                   "read")
    \/ \E selection \in {{}, {<<>>}} :
         Started([startup([cwd |-> <<"x">>, dir |-> "D"], <<>>,
                          COL_FILENAME, FALSE, FALSE, MaxLINES)
                  EXCEPT !.selection = selection],
                 "read")

NextChoose == ExitChoose \/ ExitChooseFull \/ ExitEnter

SpecChoose == InitChoose /\ [][NextChoose]_vars

\* The names of S from the least to the greatest, by bytes
names_in_order(S) ==
    CHOOSE names \in [1..Cardinality(S) -> S] :
        \A i \in 1..Cardinality(S), j \in 1..Cardinality(S) :
            i < j => str_less(names[i], names[j])

\* The file `name' of the directory cwd
path_in(cwd, name) ==
    IF cwd[Len(cwd)] = "/" THEN cwd \o name ELSE cwd \o <<"/">> \o name

\* A choose action, or ENTER on an entry that is no directory, has been
\* handled with entries selected
chose_selection ==
    /\ pc \in {"check", "exit"}
    /\ last.selection # {}
    /\ \/ last.action \in {"CHOOSE", "CHOOSE_FULL"}
       \/ last.action = "ENTER" /\ last.filename # DOTDOT

\* C39: with entries selected, CHOOSE, CHOOSE_FULL and ENTER on an entry
\* that is no directory put the selected filenames, in lexicographic
\* order and made absolute for CHOOSE_FULL, into the chosen list, and not
\* the entry under the cursor unless it is selected; they clear the
\* selection and set the quit flag.
C39_ChooseSelection ==
    chose_selection =>
        /\ Len(g.chosen) = Cardinality(last.selection)
        /\ \A i \in 1..Len(g.chosen) :
             IF last.action = "CHOOSE_FULL"
             THEN /\ g.chosen[i] =
                       path_in(last.cwd, names_in_order(last.selection)[i])
                  /\ Head(g.chosen[i]) = "/"
             ELSE g.chosen[i] = names_in_order(last.selection)[i]
        /\ g.selection = {}
        /\ g.quitting

\* ------------------------------------------------------------------------
\* What the sort actions leave alone
\* ------------------------------------------------------------------------

\* The session is in /a below a saved level of /, the directory holds the
\* entries S in the current order, the cursor is on any of them and some
\* are selected
InitResort ==
    \E S \in SUBSET SortUniverse, sort_column \in 0..(COLUMNS - 1),
       reverse_sort \in BOOLEAN, cursor \in 0..(MaxLINES + 1),
       selection \in {{}, {<<"g">>}, {<<"a">>, <<"x">>}} :
      Started(fix_cursor_and_offset(
                [startup([cwd |-> <<"/", "a">>, dir |-> "A"], <<>>,
                         sort_column, reverse_sort, FALSE, MaxLINES)
                 EXCEPT !.entries =
                            sort_entries(set_to_seq(S), sort_column,
                                         reverse_sort),
                        !.cursor = cursor,
                        !.selection = selection,
                        !.levels = <<[offset |-> 0, cursor |-> 0,
                                      path |-> <<"/">>,
                                      filename |-> <<"a">>,
                                      selection |-> {}]>>]),
              "read")

NextResort == KeySortLeft \/ KeySortRight \/ KeyReverseSort

SpecResort == InitResort /\ [][NextResort]_vars

\* A sort action is handled on a listing that is not empty
sorts_listing ==
    /\ pc = "read"
    /\ pc' # "read"
    /\ Len(g.entries) > 0
    /\ \/ g'.sort_column # g.sort_column
       \/ g'.reverse_sort # g.reverse_sort

\* C40: SORT_LEFT, SORT_RIGHT and REVERSE_SORT on a listing that is not
\* empty leave the cursor on the entry with the filename it was on, and
\* change neither the set of entries, the selection, the cwd nor the
\* history stack.
C40_SortKeepsCursorEntry ==
    [][ sorts_listing =>
          /\ at_cursor(g').filename = at_cursor(g).filename
          /\ at_cursor(g').filename # <<>>
          /\ Len(g'.entries) = Len(g.entries)
          /\ Range(g'.entries) = Range(g.entries)
          /\ g'.selection = g.selection
          /\ g'.cwd = g.cwd
          /\ g'.levels = g.levels ]_vars

\* A sort action has left the listing sorted by size with the cursor on g,
\* which was at another index both in the order by time and in the
\* reverse order by size; entries are selected and a level is saved
C40_Witness ==
    /\ pc = "check"
    /\ g.sort_column = COL_SIZE
    /\ Len(g.entries) = 4
    /\ g.selection = {<<"a">>, <<"x">>}
    /\ g.levels # <<>>
    /\ at_cursor(g).filename = <<"g">>
    /\ sort_entries(g.entries, COL_MTIME,
                    g.reverse_sort)[g.cursor + 1].filename # <<"g">>
    /\ sort_entries(g.entries, COL_SIZE,
                    ~g.reverse_sort)[g.cursor + 1].filename # <<"g">>

====
